---------------------------- MODULE Spec2Model ----------------------------
(***************************************************************************)
(* Embedded32 Python SDK: the J1939 client (client.py), the in-memory bus  *)
(* it talks to (transport/virtual.py) and the identifier / payload codec   *)
(* (codec.py), as a state machine.                                         *)
(*                                                                         *)
(* Spec: the public calls of J1939Client are issued one at a time by the   *)
(* application, each running to completion, while the delivery threads     *)
(* that VirtualTransport.send starts run J1939Client._handle_frame step by *)
(* step (snapshot under the lock, then one handler after the other with    *)
(* the lock released) interleaved with those calls.                        *)
(*                                                                         *)
(* ResubscribeSpec, RequestSpec and ConstructSpec are the same machine     *)
(* started with a subscription in place, driven by request_pgn alone, and  *)
(* started before any client is constructed.  CodecSpec is the codec alone:*)
(* one call of a function of codec.py on arguments drawn at the start,     *)
(* followed by the call that undoes it where there is one.                 *)
(*                                                                         *)
(* DispatchSpec sends frames addressed to single nodes, ReconnectSpec      *)
(* starts after a disconnect with an old unsubscribe closure still held,   *)
(* TransportSpec drives VirtualTransport endpoints without a client, and   *)
(* FairDeliverySpec adds fair scheduling of the delivery threads.          *)
(* ConcurrentSpec runs connect, disconnect, send_pgn and request_pgn of    *)
(* one client statement by statement from two application threads.        *)
(***************************************************************************)
EXTENDS Integers, Sequences, FiniteSets, TLC

\* ------------------------------------------------------------------ bounds

\* Delivery threads alive at the same time.
MaxThreads == 1

\* ------------------------------------------------- constants of the program

REQUEST == 59904              \* 0xEA00
EEC1 == 61444                 \* 0xF004
ET1 == 65262                  \* 0xFEEE
ENGINE_CONTROL_CMD == 61184   \* 0xEF00
GLOBAL == 255                 \* 0xFF
DIAG_TOOL_1 == 249            \* 0xF9
DIAG_TOOL_2 == 250            \* 0xFA
ETC1 == 61443                 \* 0xF003
PROP_TRANS_STATUS == 61440    \* 0xF000
DM1 == 65226                  \* 0xFECA
DM2 == 65227                  \* 0xFECB

\* bytearray([0xFF] * 8), and result[:3] for a Request
PayloadLen == 8
RequestLen == 3

\* _transport = None
NoTransport == "None"

\* if source_address < 0 or source_address > 0xFD
MaxSourceAddress == 253

\* ------------------------------------------------------ the universe checked

Clients == {"A", "B"}
Interfaces == {"vcan0", "vcan1"}
Handlers == {"h1", "h2"}

\* The clients the application registers handlers on, and the (PGN, handler)
\* pairs it registers.
Subscribers == {"B"}
Subscriptions == {<<EEC1, "h1">>, <<EEC1, "h2">>, <<ENGINE_CONTROL_CMD, "h1">>}

\* Arguments of send_pgn and request_pgn.
SendPGNs == {EEC1, ENGINE_CONTROL_CMD}
SendDests == {GLOBAL}
RequestPGNs == {EEC1}

ThreadIds == 1..MaxThreads

\* A Python dict: a function on its keys.
EmptyDict == [k \in {} |-> 0]

\* Signal maps handed to send_pgn, per PGN.
SendData(pgn) ==
    IF pgn = EEC1 THEN {("engineSpeed" :> 32 @@ "torque" :> 0)}
    ELSE IF pgn = ENGINE_CONTROL_CMD THEN {("targetRpm" :> 1500 @@ "enable" :> 1)}
    ELSE {EmptyDict}

VARIABLES
    config,         \* client -> [interface, source_address]   (_config)
    connected,      \* client -> BOOLEAN                        (_connected)
    transport,      \* client -> transport id or NoTransport    (_transport)
    pgn_handlers,   \* client -> dict PGN -> set of handlers    (_pgn_handlers)
    transports,     \* live VirtualTransport objects, by the client owning them
    buses,          \* VirtualTransport._buses: interface -> list of objects
    threads,        \* live delivery threads, by id
    tokens,         \* the unsubscribe closures on_pgn has returned
    unsubscribed,   \* those that have run since their handler was last added
    last            \* the last public call and the exception it raised

vars == <<config, connected, transport, pgn_handlers, transports, buses,
          threads, tokens, unsubscribed, last>>

\* --------------------------------------------------------------- bit helpers

RECURSIVE BitOr(_, _)
BitOr(a, b) ==
    IF a = 0 THEN b
    ELSE IF b = 0 THEN a
    ELSE (IF a % 2 = 1 \/ b % 2 = 1 THEN 1 ELSE 0) + 2 * BitOr(a \div 2, b \div 2)

Shl(a, n) == a * (2 ^ n)
Shr(a, n) == a \div (2 ^ n)
Get(d, k, default) == IF k \in DOMAIN d THEN d[k] ELSE default

\* ---------------------------------------------------------------- codec.py

\* A parser that takes every identifier for a broadcast one.
parse_j1939_id_pdu2(can_id) ==
    [pgn |-> BitOr(Shl(Shr(can_id, 16) % 256, 8), Shr(can_id, 8) % 256),
     priority |-> Shr(can_id, 26) % 8,
     source_address |-> can_id % 256, destination_address |-> 255, pdu1 |-> FALSE]

parse_j1939_id(can_id) ==
    LET priority == Shr(can_id, 26) % 8
        pf == Shr(can_id, 16) % 256
        ps == Shr(can_id, 8) % 256
        sa == can_id % 256
    IN  IF pf < 240
        THEN [pgn |-> Shl(pf, 8), priority |-> priority, source_address |-> sa,
              destination_address |-> ps, pdu1 |-> TRUE]
        ELSE [pgn |-> BitOr(Shl(pf, 8), ps), priority |-> priority,
              source_address |-> sa, destination_address |-> 255, pdu1 |-> FALSE]

\* A packer that puts the destination into every identifier.
build_j1939_id_addressed(pgn, source_address, priority, destination_address) ==
    BitOr(BitOr(BitOr(Shl(priority % 8, 26), Shl(Shr(pgn, 8) % 256, 16)),
                Shl(destination_address, 8)), source_address)

build_j1939_id(pgn, source_address, priority, destination_address) ==
    LET pf == Shr(pgn, 8) % 256
        ps == pgn % 256
        id0 == Shl(priority % 8, 26)
        id1 == BitOr(id0, Shl(pf, 16))
        id2 == IF pf < 240 THEN BitOr(id1, Shl(destination_address, 8))
                           ELSE BitOr(id1, Shl(ps, 8))
    IN  BitOr(id2, source_address)

\* A bytearray item must be in range(0, 256), else the assignment raises
\* ValueError.
IsByte(v) == v \in 0..255

\* Whether encode_pgn_data raises for these arguments.
encode_raises(pgn, data) ==
    IF pgn = ENGINE_CONTROL_CMD THEN ~IsByte(Get(data, "faultFlags", 0))
    ELSE IF pgn = EEC1 THEN ~IsByte(Get(data, "torque", 0) + 125)
    ELSE IF pgn = ET1 THEN ~IsByte(Get(data, "coolantTemp", 0) + 40)
    ELSE FALSE

\* An encoder that starts from a zeroed buffer.
encode_pgn_data_zeroed(pgn, data) ==
    IF pgn = REQUEST THEN <<Get(data, "requestedPGN", 0) % 256, 0, 0>>
    ELSE IF pgn = ET1
    THEN <<Get(data, "coolantTemp", 0) + 40, 0, 0, 0, 0, 0, 0, 0>>
    ELSE <<0, 0, 0, 0, 0, 0, 0, 0>>

\* The speeds are floats in the code; here a speed is counted in sixteenths
\* of an RPM (32 is 2.0 RPM, 3 is 0.1875 RPM), never negative.  Every such
\* value is held exactly by a float, rpm / 0.125 is exactly half the count,
\* and int() drops the remaining half.  In the other direction raw * 0.125 is
\* twice the raw value.
\* Python's True and False are the integers 1 and 0.
encode_pgn_data(pgn, data) ==
    LET ff == [i \in 1..PayloadLen |-> 255]
    IN  IF pgn = REQUEST THEN
            LET req_pgn == Get(data, "requestedPGN", 0)
            IN  <<req_pgn % 256, Shr(req_pgn, 8) % 256, Shr(req_pgn, 16) % 256>>
        ELSE IF pgn = ENGINE_CONTROL_CMD THEN
            LET target_rpm == Get(data, "targetRpm", 0)
            IN  <<target_rpm % 256, Shr(target_rpm, 8) % 256,
                  IF Get(data, "enable", 0) # 0 THEN 1 ELSE 0,
                  Get(data, "faultFlags", 0), 255, 255, 255, 255>>
        ELSE IF pgn = EEC1 THEN
            LET scaled_rpm == Get(data, "engineSpeed", 0) \div 2
            IN  <<240, 255, Get(data, "torque", 0) + 125, scaled_rpm % 256,
                  Shr(scaled_rpm, 8) % 256, 255, 255, 255>>
        ELSE IF pgn = ET1 THEN
            [ff EXCEPT ![1] = Get(data, "coolantTemp", 0) + 40]
        ELSE ff

encode_frame(pgn, data, source_address, priority, destination_address) ==
    [data |-> encode_pgn_data(pgn, data),
     id |-> build_j1939_id(pgn, source_address, priority, destination_address)]

\* A decoder that reads the engine speed high byte first.
decode_spns_big_endian(pgn, data) ==
    IF pgn = EEC1 /\ Len(data) >= 5
    THEN "engineSpeed" :> BitOr(data[5], Shl(data[4], 8)) * 2 @@ "torque" :> data[3] - 125
    ELSE IF pgn = ET1 /\ Len(data) >= 1 THEN "coolantTemp" :> data[1] - 40
    ELSE EmptyDict

\* A decoder that gives up on every payload shorter than 8 bytes.
decode_spns_full_only(pgn, data) ==
    IF Len(data) < 8 THEN EmptyDict
    ELSE IF pgn = EEC1
    THEN "engineSpeed" :> BitOr(data[4], Shl(data[5], 8)) * 2 @@ "torque" :> data[3] - 125
    ELSE IF pgn = ET1 THEN "coolantTemp" :> data[1] - 40
    ELSE EmptyDict

\* A decoder that returns the raw bytes, without offset or scale.
decode_spns_raw(pgn, data) ==
    IF pgn = EEC1 /\ Len(data) >= 5
    THEN "engineSpeed" :> BitOr(data[4], Shl(data[5], 8)) @@ "torque" :> data[3]
    ELSE IF pgn = ET1 /\ Len(data) >= 1 THEN "coolantTemp" :> data[1]
    ELSE IF pgn = ENGINE_CONTROL_CMD /\ Len(data) >= 4
    THEN "targetRpm" :> BitOr(data[1], Shl(data[2], 8)) @@ "enable" :> data[3]
         @@ "faultFlags" :> data[4]
    ELSE EmptyDict

\* data[i] of the code is data[i + 1] here.  f"0x{requested_pgn:04X}" is kept
\* as the format together with the number it renders.
decode_spns(pgn, data) ==
    LET n == Len(data)
    IN  IF pgn = EEC1 THEN
            (IF n >= 5 THEN "engineSpeed" :> BitOr(data[4], Shl(data[5], 8)) * 2
                       ELSE EmptyDict)
            @@ (IF n >= 3 THEN "torque" :> data[3] - 125 ELSE EmptyDict)
        ELSE IF pgn = ET1 THEN
            IF n >= 1 THEN "coolantTemp" :> data[1] - 40 ELSE EmptyDict
        ELSE IF pgn \in {ETC1, PROP_TRANS_STATUS} THEN
            (IF n >= 2 THEN "outputShaftSpeed" :> BitOr(data[1], Shl(data[2], 8)) * 2
                       ELSE EmptyDict)
            @@ (IF n >= 5 THEN "gear" :> data[5] ELSE EmptyDict)
        ELSE IF pgn = REQUEST THEN
            IF n >= 3
            THEN "requestedPGN" :>
                     <<"0x%04X", BitOr(BitOr(data[1], Shl(data[2], 8)), Shl(data[3], 16))>>
            ELSE EmptyDict
        ELSE IF pgn = ENGINE_CONTROL_CMD THEN
            (IF n >= 3
             THEN "targetRpm" :> BitOr(data[1], Shl(data[2], 8))
                  @@ "enable" :> (IF data[3] = 1 THEN 1 ELSE 0)
             ELSE EmptyDict)
            @@ (IF n >= 4 /\ data[4] # 255
                THEN "faultFlags" :> data[4] @@ "overheat" :> data[4] % 2
                ELSE EmptyDict)
        ELSE IF pgn = DM1 THEN
            IF n >= 5
            THEN "lampStatus" :> data[1]
                 @@ "spn" :> BitOr(BitOr(data[3], Shl(data[4], 8)),
                                   Shl((data[5] \div 32) * 32, 11))
                 @@ "fmi" :> data[5] % 32
            ELSE EmptyDict
        ELSE EmptyDict

\* The decoded message, without its name and its timestamp.
decode_frame(frame) ==
    LET parsed == parse_j1939_id(frame.id)
    IN  [pgn |-> parsed.pgn, priority |-> parsed.priority,
         source_address |-> parsed.source_address,
         destination_address |-> parsed.destination_address,
         spns |-> decode_spns(parsed.pgn, frame.data), raw |-> frame.data]


\* ------------------------------------------------------- small list helpers

RECURSIVE SortedSeq(_)
SortedSeq(S) ==
    IF S = {} THEN <<>>
    ELSE LET m == CHOOSE x \in S : \A y \in S : x <= y
         IN  <<m>> \o SortedSeq(S \ {m})

Range(s) == {s[i] : i \in DOMAIN s}

\* list.remove(x): drops the first occurrence.
RemoveFirst(s, x) ==
    LET i == CHOOSE j \in 1..Len(s) : s[j] = x /\ \A k \in 1..(j - 1) : s[k] # x
    IN  SubSeq(s, 1, i - 1) \o SubSeq(s, i + 1, Len(s))

Restrict(f, S) == [k \in S |-> f[k]]

\* ------------------------------------------------------ transport/virtual.py

\* VirtualTransport.__init__
VT_init(interface) ==
    [connected |-> FALSE, interface |-> interface, frame_handler |-> "None"]

\* VirtualTransport.on_frame
VT_on_frame(obj, handler) == [obj EXCEPT !.frame_handler = handler]

\* VirtualTransport.connect: the bus registry after it (it raises, and leaves
\* the registry alone, when the endpoint is connected already).
VT_connect_raises(obj) == obj.connected

VT_connect_buses(bs, obj, t) ==
    IF obj.interface \in DOMAIN bs
    THEN [bs EXCEPT ![obj.interface] = Append(@, t)]
    ELSE bs @@ (obj.interface :> <<t>>)

\* VirtualTransport.disconnect that leaves the endpoint on its bus.
VT_disconnect_buses_kept(bs, obj, t) == bs

\* VirtualTransport.disconnect: the bus registry and the endpoint after it.
VT_disconnect_buses(bs, obj, t) ==
    IF ~obj.connected THEN bs
    ELSE IF obj.interface \in DOMAIN bs /\ t \in Range(bs[obj.interface])
         THEN [bs EXCEPT ![obj.interface] = RemoveFirst(@, t)]
         ELSE bs

VT_disconnect_obj(obj) ==
    IF ~obj.connected THEN obj
    ELSE [obj EXCEPT !.connected = FALSE, !.frame_handler = "None"]

\* VirtualTransport.send without `transport is not self`.
Recipients_echo(ts, bs, t) ==
    LET bus == Get(bs, ts[t].interface, <<>>)
        keep(u) == ts[u].frame_handler # "None"
        hit == SelectSeq(bus, keep)
    IN  [i \in 1..Len(hit) |-> ts[hit[i]].frame_handler]

\* VirtualTransport.send: the inbound callbacks a frame sent by endpoint t is
\* delivered to, in the order their threads are started.
Recipients(ts, bs, t) ==
    LET bus == Get(bs, ts[t].interface, <<>>)
        keep(u) == u # t /\ ts[u].frame_handler # "None"
        hit == SelectSeq(bus, keep)
    IN  [i \in 1..Len(hit) |-> ts[hit[i]].frame_handler]

\* A delivery thread as threading.Thread(...).start() leaves it.
NewThread(target, frame) ==
    [handlers |-> {}, frame |-> frame, target |-> target, pc |-> "start",
     todo |-> {}, invoked |-> <<>>, raised |-> {}, running |-> "None"]

\* The threads after one has been started per recipient.
StartThreads(ths, recips, frame) ==
    LET free == SortedSeq(ThreadIds \ DOMAIN ths)
        new == {free[i] : i \in 1..Len(recips)}
        idx(k) == CHOOSE i \in 1..Len(recips) : free[i] = k
    IN  [k \in DOMAIN ths \cup new |->
            IF k \in DOMAIN ths THEN ths[k] ELSE NewThread(recips[idx(k)], frame)]

\* ------------------------------------------------------------------ client.py

\* _handle_frame keeping self._lock while it invokes the handlers.
LockedAt_dispatch == {"loop", "handler"}

\* The positions at which a delivery thread holds self._lock of its client.
\* _handle_frame takes the lock for the copy of the handler set only, inside
\* its snapshot step, so that it holds it at no position between steps.
LockedAt == {}

\* self._lock of client c is held by a delivery thread; threading.Lock is
\* not reentrant, so whoever wants it then waits, the holder included.
Locked(c) ==
    \E pc \in LockedAt :
        \E k \in DOMAIN threads : threads[k].target = c /\ threads[k].pc = pc

\* How a public call ended: the exception it raised, "None" when it returned.
Outcome(op, error) == [op |-> op, error |-> error]

\* The VirtualTransport that connect() of client c creates.  A client holds
\* one endpoint at a time and the one it drops is garbage, so an endpoint is
\* named by the client it belongs to.
NewTransportId(c) == c

\* connect() without the "Already connected" check.
connect_unchecked(c) ==
    /\ LET t == NewTransportId(c)
           obj == VT_on_frame(VT_init(config[c].interface), c)
       IN  /\ transport' = [transport EXCEPT ![c] = t]
           /\ buses' = VT_connect_buses(buses, obj, t)
           /\ transports' = transports @@ (t :> [obj EXCEPT !.connected = TRUE])
    /\ connected' = [connected EXCEPT ![c] = TRUE]
    /\ last' = Outcome("connect", "None")
    /\ UNCHANGED <<config, pgn_handlers, threads, tokens, unsubscribed>>

\* J1939Client.connect
connect(c) ==
    IF connected[c]
    THEN /\ last' = Outcome("connect", "Already connected")
         /\ UNCHANGED <<config, connected, transport, pgn_handlers, transports,
                        buses, threads, tokens, unsubscribed>>
    ELSE /\ LET t == NewTransportId(c)
                obj == VT_on_frame(VT_init(config[c].interface), c)
            IN  /\ ~VT_connect_raises(obj)
                /\ transport' = [transport EXCEPT ![c] = t]
                /\ buses' = VT_connect_buses(buses, obj, t)
                /\ transports' = transports @@ (t :> [obj EXCEPT !.connected = TRUE])
         /\ connected' = [connected EXCEPT ![c] = TRUE]
         /\ last' = Outcome("connect", "None")
         /\ UNCHANGED <<config, pgn_handlers, threads, tokens, unsubscribed>>

\* if not self._connected or not self._transport
NotReady(c) == ~connected[c] \/ transport[c] = NoTransport

\* disconnect() that drops the handle without closing the endpoint.
disconnect_left_open(c) ==
    IF NotReady(c)
    THEN /\ last' = Outcome("disconnect", "None")
         /\ UNCHANGED <<config, connected, transport, pgn_handlers, transports,
                        buses, threads, tokens, unsubscribed>>
    ELSE /\ transport' = [transport EXCEPT ![c] = NoTransport]
         /\ connected' = [connected EXCEPT ![c] = FALSE]
         /\ pgn_handlers' = [pgn_handlers EXCEPT ![c] = [k \in {} |-> {}]]
         /\ last' = Outcome("disconnect", "None")
         /\ UNCHANGED <<config, transports, buses, threads, tokens, unsubscribed>>

\* disconnect() clearing the registry before it looks at the connection.
disconnect_clears_first(c) ==
    /\ pgn_handlers' = [pgn_handlers EXCEPT ![c] = [k \in {} |-> {}]]
    /\ last' = Outcome("disconnect", "None")
    /\ IF NotReady(c)
       THEN UNCHANGED <<connected, transport, transports, buses>>
       ELSE LET t == transport[c]
                bs == VT_disconnect_buses(buses, transports[t], t)
            IN  /\ buses' = bs
                /\ transports' = Restrict(transports, DOMAIN transports \ {t})
                /\ transport' = [transport EXCEPT ![c] = NoTransport]
                /\ connected' = [connected EXCEPT ![c] = FALSE]
    /\ UNCHANGED <<config, threads, tokens, unsubscribed>>

\* disconnect() that forgets self._connected = False.
disconnect_stays_connected(c) ==
    /\ last' = Outcome("disconnect", "None")
    /\ IF NotReady(c)
       THEN UNCHANGED <<transport, pgn_handlers, transports, buses>>
       ELSE LET t == transport[c]
                bs == VT_disconnect_buses(buses, transports[t], t)
            IN  /\ buses' = bs
                /\ transports' = Restrict(transports, DOMAIN transports \ {t})
                /\ transport' = [transport EXCEPT ![c] = NoTransport]
                /\ pgn_handlers' = [pgn_handlers EXCEPT ![c] = [k \in {} |-> {}]]
    /\ UNCHANGED <<config, connected, threads, tokens, unsubscribed>>

\* J1939Client.disconnect.  The endpoint it drops is referenced by nothing
\* afterwards and leaves the heap.
disconnect(c) ==
    IF NotReady(c)
    THEN /\ last' = Outcome("disconnect", "None")
         /\ UNCHANGED <<config, connected, transport, pgn_handlers, transports,
                        buses, threads, tokens, unsubscribed>>
    ELSE LET t == transport[c]
             after == VT_disconnect_obj(transports[t])
             bs == VT_disconnect_buses(buses, transports[t], t)
             live == {u \in DOMAIN transports :
                         u # t \/ \E i \in DOMAIN bs : u \in Range(bs[i])}
         IN  /\ buses' = bs
             /\ transports' = Restrict([transports EXCEPT ![t] = after], live)
             /\ transport' = [transport EXCEPT ![c] = NoTransport]
             /\ connected' = [connected EXCEPT ![c] = FALSE]
             /\ pgn_handlers' = [pgn_handlers EXCEPT ![c] = [k \in {} |-> {}]]
             /\ last' = Outcome("disconnect", "None")
             /\ UNCHANGED <<config, threads, tokens, unsubscribed>>
             /\ ~Locked(c)

\* on_pgn.decorator: the registry after the handler is added.
Subscribed(reg, pgn, func) ==
    IF pgn \in DOMAIN reg
    THEN [reg EXCEPT ![pgn] = @ \cup {func}]
    ELSE reg @@ (pgn :> {func})

\* The closure dropping the PGN's whole entry.
Unsubscribed_whole_entry(reg, pgn, func) ==
    IF pgn \in DOMAIN reg /\ reg[pgn] # {}
    THEN Restrict(reg, DOMAIN reg \ {pgn})
    ELSE reg

\* The closure deleting the entry of a PGN only, never a handler of a set
\* that stays.
Unsubscribed_only_last(reg, pgn, func) ==
    IF pgn \in DOMAIN reg /\ reg[pgn] = {func}
    THEN Restrict(reg, DOMAIN reg \ {pgn})
    ELSE reg

\* on_pgn.unsubscribe: the registry after the closure has run.
Unsubscribed(reg, pgn, func) ==
    IF pgn \in DOMAIN reg /\ reg[pgn] # {}
    THEN IF reg[pgn] \ {func} = {}
         THEN Restrict(reg, DOMAIN reg \ {pgn})
         ELSE [reg EXCEPT ![pgn] = @ \ {func}]
    ELSE reg

\* J1939Client.on_pgn(pgn, handler): subscribes and returns the closure.
on_pgn(c, pgn, func) ==
    /\ pgn_handlers' = [pgn_handlers EXCEPT ![c] = Subscribed(@, pgn, func)]
    /\ tokens' = tokens \cup {<<c, pgn, func>>}
    /\ unsubscribed' = unsubscribed \ {<<c, pgn, func>>}
    /\ last' = Outcome("on_pgn", "None")
    /\ UNCHANGED <<config, connected, transport, transports, buses, threads>>
    /\ ~Locked(c)

\* The closure with handlers.remove(func) for handlers.discard(func).
unsubscribe_remove(c, pgn, func) ==
    /\ <<c, pgn, func>> \in tokens
    /\ pgn_handlers' = [pgn_handlers EXCEPT ![c] = Unsubscribed(@, pgn, func)]
    /\ unsubscribed' = unsubscribed \cup {<<c, pgn, func>>}
    /\ last' = Outcome("unsubscribe",
                       IF pgn \in DOMAIN pgn_handlers[c]
                          /\ func \notin pgn_handlers[c][pgn]
                       THEN "KeyError" ELSE "None")
    /\ UNCHANGED <<config, connected, transport, transports, buses, threads,
                   tokens>>

\* A call of the closure on_pgn(pgn, func) returned.
unsubscribe(c, pgn, func) ==
    /\ <<c, pgn, func>> \in tokens
    /\ pgn_handlers' = [pgn_handlers EXCEPT ![c] = Unsubscribed(@, pgn, func)]
    /\ unsubscribed' = unsubscribed \cup {<<c, pgn, func>>}
    /\ last' = Outcome("unsubscribe", "None")
    /\ UNCHANGED <<config, connected, transport, transports, buses, threads,
                   tokens>>
    /\ ~Locked(c)

\* self._transport.send(frame), reached by send_pgn and request_pgn once the
\* frame is built.
TransportSend(op, c, frame) ==
    LET t == transport[c]
    IN  IF ~transports[t].connected
        THEN /\ last' = Outcome(op, "Not connected")
             /\ UNCHANGED threads
        ELSE LET recips == Recipients(transports, buses, t)
             IN  /\ Len(recips) <= Cardinality(ThreadIds \ DOMAIN threads)
                 /\ threads' = StartThreads(threads, recips, frame)
                 /\ last' = Outcome(op, "None")

\* request_pgn() sending every request to the global address.
request_pgn_broadcast(c, pgn, destination) ==
    /\ IF NotReady(c)
       THEN /\ last' = Outcome("request_pgn", "Not connected")
            /\ UNCHANGED threads
       ELSE LET request_data == <<pgn % 256, Shr(pgn, 8) % 256, Shr(pgn, 16) % 256>>
                can_id == build_j1939_id(REQUEST, config[c].source_address, 6,
                                         GLOBAL)
            IN  TransportSend("request_pgn", c, [data |-> request_data, id |-> can_id])
    /\ UNCHANGED <<config, connected, transport, pgn_handlers, transports, buses,
                   tokens, unsubscribed>>

\* J1939Client.request_pgn
request_pgn(c, pgn, destination) ==
    /\ IF NotReady(c)
       THEN /\ last' = Outcome("request_pgn", "Not connected")
            /\ UNCHANGED threads
       ELSE LET request_data == <<pgn % 256, Shr(pgn, 8) % 256, Shr(pgn, 16) % 256>>
                can_id == build_j1939_id(REQUEST, config[c].source_address, 6,
                                         destination)
            IN  TransportSend("request_pgn", c, [data |-> request_data, id |-> can_id])
    /\ UNCHANGED <<config, connected, transport, pgn_handlers, transports, buses,
                   tokens, unsubscribed>>

\* send_pgn() that returns, instead of raising, when not connected.
send_pgn_silent(c, pgn, data, destination) ==
    /\ IF NotReady(c)
       THEN /\ last' = Outcome("send_pgn", "None")
            /\ UNCHANGED threads
       ELSE TransportSend("send_pgn", c,
                encode_frame(pgn, data, config[c].source_address, 6, destination))
    /\ UNCHANGED <<config, connected, transport, pgn_handlers, transports, buses,
                   tokens, unsubscribed>>

\* J1939Client.send_pgn
send_pgn(c, pgn, data, destination) ==
    /\ IF NotReady(c)
       THEN /\ last' = Outcome("send_pgn", "Not connected")
            /\ UNCHANGED threads
       ELSE IF encode_raises(pgn, data)
       THEN /\ last' = Outcome("send_pgn", "ValueError")
            /\ UNCHANGED threads
       ELSE TransportSend("send_pgn", c,
                encode_frame(pgn, data, config[c].source_address, 6, destination))
    /\ UNCHANGED <<config, connected, transport, pgn_handlers, transports, buses,
                   tokens, unsubscribed>>

\* J1939Client.is_connected
is_connected(c) == connected[c]

\* ---------------------------------------------- J1939Client._handle_frame

\* A dispatch that drops the frames not addressed to everybody.
SnapshotOf_addressed(reg, message) ==
    IF message.destination_address # GLOBAL THEN {} ELSE Get(reg, message.pgn, {})

\* with self._lock: handlers = self._pgn_handlers.get(message.pgn, set()).copy()
SnapshotOf(reg, message) == Get(reg, message.pgn, {})

\* _handle_frame reaching for the transport handle before it dispatches, with
\* the AttributeError of a handle that is None leaving the callback.
Snapshot_handle(k) ==
    /\ k \in DOMAIN threads
    /\ threads[k].pc = "start"
    /\ UNCHANGED <<config, connected, transport, pgn_handlers, transports, buses,
                   tokens, unsubscribed>>
    /\ LET th == threads[k]
           handlers == SnapshotOf(pgn_handlers[th.target], decode_frame(th.frame))
       IN  IF transport[th.target] = NoTransport
           THEN /\ threads' = Restrict(threads, DOMAIN threads \ {k})
                /\ last' = Outcome("_handle_frame", "AttributeError")
           ELSE /\ last' = last
                /\ threads' = IF handlers = {}
                               THEN Restrict(threads, DOMAIN threads \ {k})
                               ELSE [threads EXCEPT ![k] =
                                        [th EXCEPT !.pc = "loop",
                                                   !.handlers = handlers,
                                                   !.todo = handlers]]

\* The thread takes its snapshot; over an empty one the loop runs no
\* iteration, _handle_frame returns and the thread ends.
Snapshot(k) ==
    /\ k \in DOMAIN threads
    /\ threads[k].pc = "start"
    /\ UNCHANGED <<config, connected, transport, pgn_handlers, transports, buses,
                   tokens, unsubscribed, last>>
    /\ LET th == threads[k]
           handlers == SnapshotOf(pgn_handlers[th.target], decode_frame(th.frame))
       IN  threads' = IF handlers = {}
                      THEN Restrict(threads, DOMAIN threads \ {k})
                      ELSE [threads EXCEPT ![k] =
                               [th EXCEPT !.pc = "loop", !.handlers = handlers,
                                          !.todo = handlers]]

\* The loop never moving past the handler it has invoked.
Invoke_repeat(k, h) ==
    /\ k \in DOMAIN threads
    /\ threads[k].pc = "loop"
    /\ UNCHANGED <<config, connected, transport, pgn_handlers, transports, buses,
                   tokens, unsubscribed, last>>
    /\ h \in threads[k].todo
    /\ threads' = [threads EXCEPT ![k] =
           [@ EXCEPT !.pc = "handler", !.running = h,
                     !.invoked = Append(@, h)]]

\* The loop running over the registry's own set, not over a copy of it.
Invoke_live(k, h) ==
    /\ k \in DOMAIN threads
    /\ threads[k].pc = "loop"
    /\ UNCHANGED <<config, connected, transport, pgn_handlers, transports, buses,
                   tokens, unsubscribed, last>>
    /\ h \in Get(pgn_handlers[threads[k].target],
                 decode_frame(threads[k].frame).pgn, {})
             \ Range(threads[k].invoked)
    /\ threads' = [threads EXCEPT ![k] =
           [@ EXCEPT !.pc = "handler", !.running = h, !.todo = @ \ {h},
                     !.invoked = Append(@, h)]]

\* for handler in handlers: handler(message) begins.
Invoke(k, h) ==
    /\ k \in DOMAIN threads
    /\ threads[k].pc = "loop"
    /\ UNCHANGED <<config, connected, transport, pgn_handlers, transports, buses,
                   tokens, unsubscribed, last>>
    /\ h \in threads[k].todo
    /\ threads' = [threads EXCEPT ![k] =
           [@ EXCEPT !.pc = "handler", !.running = h, !.todo = @ \ {h},
                     !.invoked = Append(@, h)]]

\* Without the inner try: the error ends the loop, caught by the outer except.
AfterHandler_abort(th, raises) ==
    [th EXCEPT !.pc = "loop", !.running = "None",
               !.raised = IF raises THEN @ \cup {th.running} ELSE @,
               !.todo = IF raises THEN {} ELSE @]

\* The thread after the running handler has ended, normally or by raising:
\* the inner except logs the error and the loop goes on.
AfterHandler(th, raises) ==
    [th EXCEPT !.pc = "loop", !.running = "None",
               !.raised = IF raises THEN @ \cup {th.running} ELSE @]

\* _handle_frame returning after the first handler it has invoked.
HandlerEnd_first(k, raises) ==
    /\ k \in DOMAIN threads
    /\ threads[k].pc = "handler"
    /\ UNCHANGED <<config, connected, transport, pgn_handlers, transports, buses,
                   tokens, unsubscribed, last>>
    /\ threads' = Restrict(threads, DOMAIN threads \ {k})

\* The running handler ends; with no handler left the loop is over,
\* _handle_frame returns and the thread ends.
HandlerEnd(k, raises) ==
    /\ k \in DOMAIN threads
    /\ threads[k].pc = "handler"
    /\ UNCHANGED <<config, connected, transport, pgn_handlers, transports, buses,
                   tokens, unsubscribed, last>>
    /\ LET th == AfterHandler(threads[k], raises)
       IN  threads' = IF th.todo = {}
                      THEN Restrict(threads, DOMAIN threads \ {k})
                      ELSE [threads EXCEPT ![k] = th]

\* ------------------------------------------------------------ specification

Configs ==
    {[c \in Clients |->
        [source_address |-> IF c = "A" THEN DIAG_TOOL_1 ELSE DIAG_TOOL_2,
         interface |-> IF c = "A" THEN i ELSE "vcan0"]] :
     i \in Interfaces}

\* J1939Client.__init__, for every client, and the empty class-level bus.
Init ==
    /\ config \in Configs
    /\ connected = [c \in Clients |-> FALSE]
    /\ transport = [c \in Clients |-> NoTransport]
    /\ pgn_handlers = [c \in Clients |-> [k \in {} |-> {}]]
    /\ transports = [t \in {} |-> VT_init("vcan0")]
    /\ buses = [i \in {} |-> <<>>]
    /\ threads = [k \in {} |-> NewThread("A", [data |-> <<>>, id |-> 0])]
    /\ tokens = {}
    /\ unsubscribed = {}
    /\ last = Outcome("__init__", "None")

Next ==
    \/ \E c \in Clients : connect(c)
    \/ \E c \in Clients : disconnect(c)
    \/ \E c \in Subscribers, s \in Subscriptions : on_pgn(c, s[1], s[2])
    \/ \E c \in Subscribers, s \in Subscriptions : unsubscribe(c, s[1], s[2])
    \/ \E c \in Clients, pgn \in RequestPGNs, d \in SendDests : request_pgn(c, pgn, d)
    \/ \E c \in Clients, pgn \in SendPGNs, d \in SendDests :
           \E data \in SendData(pgn) : send_pgn(c, pgn, data, d)
    \/ \E k \in ThreadIds : Snapshot(k)
    \/ \E k \in ThreadIds, h \in Handlers : Invoke(k, h)
    \/ \E k \in ThreadIds, raises \in BOOLEAN : HandlerEnd(k, raises)

Spec == Init /\ [][Next]_vars

\* The same program from the state in which B has subscribed h1 to EEC1 and
\* with no call that takes a handler out of a registry: every on_pgn of
\* (EEC1, h1) in it is a repeated one.
InitSubscribed ==
    /\ config \in Configs
    /\ connected = [c \in Clients |-> FALSE]
    /\ transport = [c \in Clients |-> NoTransport]
    /\ pgn_handlers = [c \in Clients |->
                          IF c = "B" THEN Subscribed([k \in {} |-> {}], EEC1, "h1")
                          ELSE [k \in {} |-> {}]]
    /\ transports = [t \in {} |-> VT_init("vcan0")]
    /\ buses = [i \in {} |-> <<>>]
    /\ threads = [k \in {} |-> NewThread("A", [data |-> <<>>, id |-> 0])]
    /\ tokens = {<<"B", EEC1, "h1">>}
    /\ unsubscribed = {}
    /\ last = Outcome("on_pgn", "None")

NextSubscribed ==
    \/ \E c \in Clients : connect(c)
    \/ \E c \in Subscribers, s \in Subscriptions : on_pgn(c, s[1], s[2])
    \/ \E c \in Clients, pgn \in SendPGNs, d \in SendDests :
           \E data \in SendData(pgn) : send_pgn(c, pgn, data, d)
    \/ \E k \in ThreadIds : Snapshot(k)
    \/ \E k \in ThreadIds, h \in Handlers : Invoke(k, h)
    \/ \E k \in ThreadIds, raises \in BOOLEAN : HandlerEnd(k, raises)

ResubscribeSpec == InitSubscribed /\ [][NextSubscribed]_vars

\* ----------------------------------------------------------------- requests

\* PGNs asked for, one of them with a third byte (0x01F004), and the
\* addresses they are asked from.
RequestedPGNs == {EEC1, ET1, 126980}
RequestDests == {0, DIAG_TOOL_2, GLOBAL}

\* Clients connect, disconnect and request; nobody subscribes, so that each
\* delivery ends with its (empty) snapshot.
NextRequest ==
    \/ \E c \in Clients : connect(c)
    \/ \E c \in Clients : disconnect(c)
    \/ \E c \in Clients, pgn \in RequestedPGNs, d \in RequestDests :
           request_pgn(c, pgn, d)
    \/ \E k \in ThreadIds : Snapshot(k)

RequestSpec == Init /\ [][NextRequest]_vars

\* ------------------------------------------------------------- construction

\* Source addresses handed to the constructor.
SourceAddresses == {-1, 0, DIAG_TOOL_1, DIAG_TOOL_2, 253, 254, 255, 256}

\* The constructor accepting every address of one byte.
J1939Client_init_byte(c, interface, source_address) ==
    /\ c \notin DOMAIN config
    /\ IF source_address < 0 \/ source_address > 255
       THEN /\ last' = Outcome("__init__", "ValueError")
            /\ UNCHANGED <<config, connected, transport, pgn_handlers>>
       ELSE /\ config' = config @@ (c :> [source_address |-> source_address,
                                           interface |-> interface])
            /\ transport' = transport @@ (c :> NoTransport)
            /\ connected' = connected @@ (c :> FALSE)
            /\ pgn_handlers' = pgn_handlers @@ (c :> [k \in {} |-> {}])
            /\ last' = Outcome("__init__", "None")
    /\ UNCHANGED <<transports, buses, threads, tokens, unsubscribed>>

\* J1939Client.__init__: client c comes to exist unless the address is
\* refused.
J1939Client_init(c, interface, source_address) ==
    /\ c \notin DOMAIN config
    /\ IF source_address < 0 \/ source_address > MaxSourceAddress
       THEN /\ last' = Outcome("__init__", "ValueError")
            /\ UNCHANGED <<config, connected, transport, pgn_handlers>>
       ELSE /\ config' = config @@ (c :> [source_address |-> source_address,
                                           interface |-> interface])
            /\ transport' = transport @@ (c :> NoTransport)
            /\ connected' = connected @@ (c :> FALSE)
            /\ pgn_handlers' = pgn_handlers @@ (c :> [k \in {} |-> {}])
            /\ last' = Outcome("__init__", "None")
    /\ UNCHANGED <<transports, buses, threads, tokens, unsubscribed>>

\* No client has been constructed.
InitNoClient ==
    /\ config = [c \in {} |-> 0]
    /\ connected = [c \in {} |-> FALSE]
    /\ transport = [c \in {} |-> NoTransport]
    /\ pgn_handlers = [c \in {} |-> 0]
    /\ transports = [t \in {} |-> VT_init("vcan0")]
    /\ buses = [i \in {} |-> <<>>]
    /\ threads = [k \in {} |-> NewThread("A", [data |-> <<>>, id |-> 0])]
    /\ tokens = {}
    /\ unsubscribed = {}
    /\ last = Outcome("None", "None")

\* Clients are constructed, and those that exist connect and disconnect.
NextConstruct ==
    \/ \E c \in Clients, i \in Interfaces, sa \in SourceAddresses :
           J1939Client_init(c, i, sa)
    \/ \E c \in DOMAIN config : connect(c)
    \/ \E c \in DOMAIN config : disconnect(c)

ConstructSpec == InitNoClient /\ [][NextConstruct]_vars

\* ------------------------------------------------ the codec, called directly

\* The functions of codec.py are called with arguments of the application's
\* choosing, no client being involved.  last holds one call: its function and
\* arguments when it is made, and what it returned or raised once it is done.
Called(op, args) == [pc |-> "call", op |-> op, error |-> "None", args |-> args]
Returned(op, args, result) ==
    [pc |-> "done", op |-> op, error |-> "None", args |-> args, result |-> result]
Raised(op, args, error) == [pc |-> "done", op |-> op, error |-> error, args |-> args]

CodecCall(call) ==
    /\ last' = call
    /\ UNCHANGED <<config, connected, transport, pgn_handlers, transports, buses,
                   threads, tokens, unsubscribed>>

\* Arguments of build_j1939_id: 0xEA05 is the Request PGN with a PS byte, and
\* 0x1F004 has the data page bit.
IdPGNs == {0, REQUEST, ENGINE_CONTROL_CMD, 59909, PROP_TRANS_STATUS, EEC1, ET1,
           65535, 126980}
IdSources == {0, 1, DIAG_TOOL_1, GLOBAL}
IdPriorities == 0..7
IdDests == {0, 1, DIAG_TOOL_2, GLOBAL}

\* Every dict that gives some of the keys of values one of the values listed
\* for the key.
SignalMaps(values) ==
    UNION {{f \in [K -> UNION {values[k] : k \in K}] : \A k \in K : f[k] \in values[k]} :
           K \in SUBSET DOMAIN values}

\* Signal maps handed to the encoder, per PGN: signals left out, at the ends
\* of their raw range, and one step beyond it.  Speeds are in sixteenths of
\* an RPM: 3 is no multiple of 0.125 RPM, 131070 is 8191.875 RPM (raw 0xFFFF).
EncodeSignals(pgn) ==
    IF pgn = EEC1
    THEN SignalMaps("engineSpeed" :> {0, 2, 3, 32, 131070, 131072}
                    @@ "torque" :> {-126, -125, 0, 130, 131})
    ELSE IF pgn = ET1 THEN SignalMaps("coolantTemp" :> {-41, -40, 0, 100, 215, 216})
    ELSE IF pgn = ENGINE_CONTROL_CMD
    THEN SignalMaps("targetRpm" :> {0, 1500, 65535, 65536}
                    @@ "enable" :> {0, 1, 2}
                    @@ "faultFlags" :> {0, 1, 254, 255, 256})
    ELSE IF pgn = REQUEST THEN SignalMaps("requestedPGN" :> {EEC1, 126980})
    ELSE SignalMaps("coolantTemp" :> {100})

\* Arguments of encode_frame (priority and destination_address keep their
\* defaults 6 and 0xFF) and of encode_pgn_data; 0x1234 is in no table.
FramePGNs == {EEC1, ET1, ENGINE_CONTROL_CMD}
FrameSources == {0, DIAG_TOOL_1}
EncodePGNs == {EEC1, ET1, ENGINE_CONTROL_CMD, REQUEST, ETC1, DM1, 4660}

\* Arguments of decode_spns: the payloads of 0 to 8 bytes that are the start
\* of one of these 8-byte payloads.
DecodePGNs == {EEC1, ET1, ETC1, PROP_TRANS_STATUS, REQUEST, ENGINE_CONTROL_CMD,
               DM1, DM2, 4660}
FullPayloads ==
    {<<b0, b1, b2, b3, b4, t, t, t>> :
        b0 \in {0, 140, 255}, b1 \in {2, 77}, b2 \in {1, 125, 255},
        b3 \in {16, 255}, b4 \in {0, 231, 255}, t \in {9, 255}}
Payloads == {SubSeq(p, 1, n) : p \in FullPayloads, n \in 0..PayloadLen}

\* The calls the application makes.
CodecCalls ==
    {Called("build_j1939_id",
            [pgn |-> pgn, priority |-> prio, source_address |-> sa,
             destination_address |-> da]) :
        pgn \in IdPGNs, prio \in IdPriorities, sa \in IdSources, da \in IdDests}
    \cup UNION {{Called("encode_frame",
                        [pgn |-> pgn, source_address |-> sa, data |-> data]) :
                    sa \in FrameSources, data \in EncodeSignals(pgn)} :
                pgn \in FramePGNs}
    \cup UNION {{Called("encode_pgn_data", [pgn |-> pgn, data |-> data]) :
                    data \in EncodeSignals(pgn)} :
                pgn \in EncodePGNs}
    \cup {Called("decode_spns", [pgn |-> pgn, data |-> data]) :
             pgn \in DecodePGNs, data \in Payloads}

InitCodec ==
    /\ config = [c \in {} |-> 0]
    /\ connected = [c \in {} |-> FALSE]
    /\ transport = [c \in {} |-> NoTransport]
    /\ pgn_handlers = [c \in {} |-> 0]
    /\ transports = [t \in {} |-> VT_init("vcan0")]
    /\ buses = [i \in {} |-> <<>>]
    /\ threads = [k \in {} |-> NewThread("A", [data |-> <<>>, id |-> 0])]
    /\ tokens = {}
    /\ unsubscribed = {}
    /\ last \in CodecCalls

Calling(op) == last.op = op /\ last.pc = "call"
Done(op) == last.op = op /\ last.pc = "done" /\ last.error = "None"

build_j1939_id_call ==
    /\ Calling("build_j1939_id")
    /\ CodecCall(Returned(last.op, last.args,
                          build_j1939_id(last.args.pgn, last.args.source_address,
                                         last.args.priority,
                                         last.args.destination_address)))

\* parse_j1939_id on the identifier the last call built.
parse_j1939_id_call ==
    /\ Done("build_j1939_id")
    /\ CodecCall(Returned("parse_j1939_id",
                          [can_id |-> last.result, built_from |-> last.args],
                          parse_j1939_id(last.result)))

encode_frame_call ==
    /\ Calling("encode_frame")
    /\ IF encode_raises(last.args.pgn, last.args.data)
       THEN CodecCall(Raised(last.op, last.args, "ValueError"))
       ELSE CodecCall(Returned(last.op, last.args,
                               encode_frame(last.args.pgn, last.args.data,
                                            last.args.source_address, 6, 255)))

\* decode_frame on the frame the last call encoded.
decode_frame_call ==
    /\ Done("encode_frame")
    /\ CodecCall(Returned("decode_frame",
                          [frame |-> last.result, encoded_from |-> last.args],
                          decode_frame(last.result)))

encode_pgn_data_call ==
    /\ Calling("encode_pgn_data")
    /\ IF encode_raises(last.args.pgn, last.args.data)
       THEN CodecCall(Raised(last.op, last.args, "ValueError"))
       ELSE CodecCall(Returned(last.op, last.args,
                               encode_pgn_data(last.args.pgn, last.args.data)))

\* decode_spns has no statement that can raise for a sequence of bytes.
decode_spns_call ==
    /\ Calling("decode_spns")
    /\ CodecCall(Returned(last.op, last.args,
                          decode_spns(last.args.pgn, last.args.data)))

NextCodec ==
    \/ build_j1939_id_call
    \/ parse_j1939_id_call
    \/ encode_frame_call
    \/ decode_frame_call
    \/ encode_pgn_data_call
    \/ decode_spns_call

CodecSpec == InitCodec /\ [][NextCodec]_vars

\* ------------------------------------------------------------------ claims

\* The PGNs that are subscribed to or that frames carry.
PGNs == {REQUEST, EEC1, ENGINE_CONTROL_CMD}

\* The handlers registered on client c for pgn.
Reg(c, pgn) == Get(pgn_handlers[c], pgn, {})

\* Some call of send_pgn / request_pgn on client c.
SendCall(c) ==
    \E pgn \in SendPGNs, d \in SendDests :
        \E data \in SendData(pgn) : send_pgn(c, pgn, data, d)

RequestCall(c) ==
    \E pgn \in RequestPGNs, d \in SendDests : request_pgn(c, pgn, d)

\* The PGN the frame of delivery thread k dispatches on: message.pgn, which
\* decode_frame takes from the parsed identifier.
PgnOf(k) == parse_j1939_id(threads[k].frame.id).pgn

\* Delivery thread k has taken its snapshot and has not ended.
InFlight(k) == k \in DOMAIN threads /\ threads[k].pc # "start"

\* The snapshot a Snapshot(k) step has taken: the thread is over at once
\* when it is empty.
Taken(k) == IF k \in DOMAIN threads' THEN threads'[k].handlers ELSE {}

\* Delivery thread k ends in this step.
Ends(k) == k \in DOMAIN threads /\ k \notin DOMAIN threads'

\* The address of the node that sent the frame thread k delivers.
SenderOf(k) == parse_j1939_id(threads[k].frame.id).source_address

\* C1: while the client is Disconnected, send_pgn and request_pgn raise
\* "Not connected", start no delivery and leave the connection state, the
\* transport handle, the bus and the registry as they were.
C1_SendWhileDisconnected ==
    [][\A c \in Clients :
          (~is_connected(c) /\ (SendCall(c) \/ RequestCall(c)))
          => /\ last'.error = "Not connected"
             /\ UNCHANGED <<connected, transport, pgn_handlers, transports,
                            buses, threads>>]_vars

\* B's send_pgn was refused after B had been connected and disconnected (its
\* interface is on the bus registry, without endpoint), with handlers
\* registered on it; A, on another interface, is connected.
C1_Witness ==
    /\ last = Outcome("send_pgn", "Not connected")
    /\ ~is_connected("B") /\ is_connected("A")
    /\ config["A"].interface = "vcan1"
    /\ "vcan0" \in DOMAIN buses
    /\ DOMAIN pgn_handlers["B"] # {}

\* C2: connect() on a Connected client raises "Already connected" and changes
\* nothing: same handle, no new endpoint, same bus, same registry.
C2_ConnectTwice ==
    [][\A c \in Clients :
          (is_connected(c) /\ connect(c))
          => /\ last'.error = "Already connected"
             /\ UNCHANGED <<config, connected, transport, pgn_handlers,
                            transports, buses, threads, tokens>>]_vars

C2_Witness ==
    /\ last = Outcome("connect", "Already connected")
    /\ is_connected("B") /\ ~is_connected("A")
    /\ DOMAIN pgn_handlers["B"] # {}
    /\ DOMAIN transports = {transport["B"]}

\* C3: every client starts Disconnected; connect() from Disconnected succeeds
\* and makes is_connected() true, disconnect() from Connected makes it false,
\* and a Disconnected client can always connect() (again).
C3_Lifecycle ==
    /\ \A c \in Clients : ~is_connected(c)
    /\ [][\A c \in Clients :
             /\ (~is_connected(c) /\ connect(c))
                => (is_connected(c)' /\ last'.error = "None")
             /\ (is_connected(c) /\ disconnect(c))
                => (~is_connected(c)' /\ last'.error = "None")]_vars
    /\ [](\A c \in Clients : ~is_connected(c) => ENABLED connect(c))

\* A has just connected for the second time at least: a frame it sent while
\* connected before is still on its way to B, and its endpoint has joined
\* the bus behind B's.
C3_Witness ==
    /\ last = Outcome("connect", "None")
    /\ is_connected("A") /\ is_connected("B")
    /\ buses["vcan0"] = <<transport["B"], transport["A"]>>
    /\ \E k \in DOMAIN threads :
          threads[k].target = "B" /\ SenderOf(k) = config["A"].source_address

\* C4: disconnect() on a Disconnected client raises nothing and changes
\* nothing, the handlers subscribed while Disconnected included.
C4_DisconnectWhenDisconnected ==
    [][\A c \in Clients :
          (~is_connected(c) /\ disconnect(c))
          => /\ last'.error = "None"
             /\ UNCHANGED <<config, connected, transport, pgn_handlers,
                            transports, buses, threads, tokens>>]_vars

\* The last call was a disconnect() and B, never connected, still holds the
\* handlers it was given.
C4_Witness ==
    /\ last = Outcome("disconnect", "None")
    /\ \A c \in Clients : ~is_connected(c) /\ transport[c] = NoTransport
    /\ DOMAIN buses = {}
    /\ Reg("B", EEC1) = {"h1", "h2"}

\* C5: disconnect() from Connected closes the endpoint, takes it off its bus,
\* drops the handle and empties the registry; afterwards a handler is in the
\* registry only by a new on_pgn, and a dispatch snapshots only what the
\* registry holds, so nothing subscribed before the disconnect is delivered
\* to by a later dispatch.
C5_DisconnectClears ==
    /\ [][\A c \in Clients :
             (is_connected(c) /\ disconnect(c))
             => /\ ~is_connected(c)'
                /\ transport'[c] = NoTransport
                /\ DOMAIN pgn_handlers'[c] = {}
                /\ \A i \in DOMAIN buses' : transport[c] \notin Range(buses'[i])
                /\ transport[c] \in DOMAIN transports'
                   => ~transports'[transport[c]].connected]_vars
    /\ [][\A c \in Clients :
             pgn_handlers'[c] # pgn_handlers[c]
             => \A pgn \in PGNs, h \in Handlers :
                   (h \notin Reg(c, pgn) /\ h \in Reg(c, pgn)')
                   => on_pgn(c, pgn, h)]_vars
    /\ [][\A k \in ThreadIds :
             Snapshot(k)
             => Taken(k) \subseteq Reg(threads[k].target, PgnOf(k))]_vars

\* B has been disconnected from Connected: its interface is on the bus
\* registry without its endpoint and the handlers it held are gone, while a
\* dispatch that snapshotted them before is still in flight.
C5_Witness ==
    /\ last = Outcome("disconnect", "None")
    /\ ~is_connected("B") /\ transport["B"] = NoTransport
    /\ config["A"].interface = "vcan0" /\ is_connected("A")
    /\ buses["vcan0"] = <<transport["A"]>>
    /\ DOMAIN pgn_handlers["B"] = {}
    /\ \E k \in DOMAIN threads :
          /\ threads[k].target = "B"
          /\ threads[k].handlers = {"h1", "h2"}
          /\ threads[k].invoked = <<>>

\* C6: a call of the unsubscribe closure raises nothing and leaves the
\* handler unregistered; a further call changes nothing; and a frame whose
\* PGN has had every subscribed handler unsubscribed is dispatched to nobody.
C6_UnsubscribeIdempotent ==
    /\ [][\A c \in Clients, pgn \in PGNs, h \in Handlers :
             unsubscribe(c, pgn, h)
             => /\ last'.error = "None"
                /\ h \notin Reg(c, pgn)'
                /\ <<c, pgn, h>> \in unsubscribed
                   => UNCHANGED <<config, connected, transport, pgn_handlers,
                                  transports, buses, threads, tokens,
                                  unsubscribed>>]_vars
    /\ [][\A k \in ThreadIds :
             (/\ Snapshot(k)
              /\ \A h \in Handlers :
                    <<threads[k].target, PgnOf(k), h>> \in tokens
                    => <<threads[k].target, PgnOf(k), h>> \in unsubscribed)
             => Taken(k) = {} /\ Ends(k)]_vars

\* h1 was subscribed to EEC1 on B and unsubscribed, the last call was a call
\* of the closure, and an EEC1 frame has reached B's inbound callback.
C6_Witness ==
    /\ last = Outcome("unsubscribe", "None")
    /\ tokens = {<<"B", EEC1, "h1">>}
    /\ unsubscribed = tokens
    /\ DOMAIN pgn_handlers["B"] = {}
    /\ \E k \in DOMAIN threads :
          /\ threads[k].target = "B" /\ PgnOf(k) = EEC1
          /\ threads[k].pc = "start"

\* C7: a call of the closure for (pgn, handler) changes the registration of
\* no other (client, PGN, handler), and every handler that is registered for
\* a frame's PGN is in the snapshot of its dispatch.
C7_UnsubscribeExact ==
    /\ [][\A c \in Clients, pgn \in PGNs, h \in Handlers :
             unsubscribe(c, pgn, h)
             => \A d \in Clients, q \in PGNs, g \in Handlers :
                   <<d, q, g>> # <<c, pgn, h>>
                   => (g \in Reg(d, q)' <=> g \in Reg(d, q))]_vars
    /\ [][\A k \in ThreadIds :
             Snapshot(k)
             => Reg(threads[k].target, PgnOf(k)) \subseteq Taken(k)]_vars

\* h1 was unsubscribed from EEC1; h2 for EEC1 and h1 for the other PGN are
\* still registered, and h2 is invoked for an EEC1 frame whose snapshot no
\* longer held h1.
C7_Witness ==
    /\ last = Outcome("unsubscribe", "None")
    /\ <<"B", EEC1, "h1">> \in unsubscribed
    /\ Reg("B", EEC1) = {"h2"}
    /\ Reg("B", ENGINE_CONTROL_CMD) = {"h1"}
    /\ \E k \in DOMAIN threads :
          /\ threads[k].target = "B" /\ PgnOf(k) = EEC1
          /\ threads[k].handlers = {"h2"} /\ threads[k].running = "h2"

\* C8: a handler that raises touches neither the registry nor the connection
\* and, while handlers of the snapshot are left, leaves the dispatch in its
\* loop with the same handlers still to invoke; the error goes no further
\* than the loop, and a dispatch ends only when no handler of its snapshot is
\* left to invoke.
C8_HandlerRaises ==
    /\ [][\A k \in ThreadIds :
             HandlerEnd(k, TRUE)
             => /\ UNCHANGED <<connected, transport, pgn_handlers, transports,
                               buses, last>>
                /\ threads[k].todo # {}
                   => /\ k \in DOMAIN threads'
                      /\ threads'[k].pc = "loop"
                      /\ threads'[k].todo = threads[k].todo
                      /\ threads'[k].handlers = threads[k].handlers]_vars
    /\ [][\A k \in ThreadIds : Ends(k) => threads[k].todo = {}]_vars

\* The first handler invoked raised and the second one of the snapshot has
\* been invoked after it.
C8_Witness ==
    \E k \in DOMAIN threads :
        /\ Len(threads[k].invoked) = 2
        /\ threads[k].raised = {threads[k].invoked[1]}
        /\ threads[k].running = threads[k].invoked[2]

\* C9: the snapshot of a dispatch is the set of handlers registered for the
\* frame's PGN when it is taken; it never changes afterwards; the handlers
\* invoked and those still to invoke are always exactly the snapshot, each
\* invoked once; so what a dispatch has invoked when it ends is its snapshot,
\* whatever was subscribed or unsubscribed meanwhile.
C9_SnapshotDispatch ==
    /\ [](\A k \in ThreadIds :
             InFlight(k)
             => /\ Range(threads[k].invoked) \cup threads[k].todo
                   = threads[k].handlers
                /\ Range(threads[k].invoked) \cap threads[k].todo = {}
                /\ Cardinality(Range(threads[k].invoked))
                   = Len(threads[k].invoked))
    /\ [][\A k \in ThreadIds :
             /\ Snapshot(k)
                => Taken(k) = Reg(threads[k].target, PgnOf(k))
             /\ (InFlight(k) /\ k \in DOMAIN threads')
                => threads'[k].handlers = threads[k].handlers
             /\ (InFlight(k) /\ Ends(k))
                => Range(threads[k].invoked) = threads[k].handlers]_vars

\* A dispatch on B is invoking the last handler of its snapshot, {h1}; h1 has
\* been unsubscribed since the snapshot and h2, subscribed since, is not
\* invoked.
C9_Witness ==
    \E k \in DOMAIN threads :
        /\ threads[k].target = "B" /\ PgnOf(k) = EEC1
        /\ threads[k].handlers = {"h1"}
        /\ threads[k].invoked = <<"h1">>
        /\ threads[k].running = "h1" /\ threads[k].todo = {}
        /\ Reg("B", EEC1) = {"h2"}
        /\ <<"B", EEC1, "h1">> \in unsubscribed

\* C10 as stated: once the closure of a handler has returned, no invocation
\* of that handler begins (until it is subscribed again).
C10_NoInvocationAfterUnsubscribe ==
    [][\A k \in ThreadIds, h \in Handlers :
          Invoke(k, h)
          => <<threads[k].target, PgnOf(k), h>> \notin unsubscribed]_vars

\* C10 amended: a call of the closure while a dispatch for that PGN is in
\* flight raises nothing and leaves the dispatch alone; once it has returned,
\* no snapshot taken afterwards holds the handler (until it is subscribed
\* again); a dispatch invokes a handler only if its own snapshot holds it,
\* and at most once.
C10_NoSnapshotAfterUnsubscribe ==
    /\ [][\/ last'.error = "None" /\ threads' = threads
          \/ \A k \in ThreadIds :
                 InFlight(k)
                 => \A h \in threads[k].handlers :
                       ~unsubscribe(threads[k].target, PgnOf(k), h)]_vars
    /\ [][\A k \in ThreadIds :
             /\ Snapshot(k)
                => \A h \in Taken(k) :
                      <<threads[k].target, PgnOf(k), h>> \notin unsubscribed
             /\ \A h \in Handlers :
                    Invoke(k, h)
                    => /\ h \in threads[k].handlers
                       /\ h \notin Range(threads[k].invoked)]_vars

\* The closure of h1 has just run while a dispatch on B whose snapshot holds
\* h1 had not invoked it yet.
C10_Witness ==
    /\ last = Outcome("unsubscribe", "None")
    /\ <<"B", EEC1, "h1">> \in unsubscribed
    /\ \E k \in DOMAIN threads :
          /\ threads[k].target = "B" /\ PgnOf(k) = EEC1
          /\ threads[k].pc = "loop" /\ "h1" \in threads[k].todo

\* How often handler h has been invoked by delivery thread k.
Invocations(k, h) ==
    Cardinality({i \in DOMAIN threads[k].invoked : threads[k].invoked[i] = h})

\* C11: an on_pgn of a handler that is registered for the PGN already leaves
\* the registry as it is (one entry), a dispatch never invokes a handler it
\* has invoked already, and so no handler is invoked more than once for a
\* frame.
C11_OnceFrame ==
    /\ [](\A k \in DOMAIN threads, h \in Handlers : Invocations(k, h) <= 1)
    /\ [][\A c \in Clients, pgn \in PGNs, h \in Handlers :
             (h \in Reg(c, pgn) /\ on_pgn(c, pgn, h))
             => /\ pgn_handlers' = pgn_handlers
                /\ last'.error = "None"]_vars
    /\ [][\A k \in ThreadIds, h \in Handlers :
             Invoke(k, h) => Invocations(k, h) = 0]_vars

\* (EEC1, h1) is all B has ever subscribed and the last call subscribed it
\* once more; the registry holds it once and the dispatch of an EEC1 frame
\* has invoked it once and has nothing left to invoke.
C11_Witness ==
    /\ last = Outcome("on_pgn", "None")
    /\ tokens = {<<"B", EEC1, "h1">>}
    /\ pgn_handlers["B"] = (EEC1 :> {"h1"})
    /\ \E k \in DOMAIN threads :
          /\ threads[k].target = "B" /\ PgnOf(k) = EEC1
          /\ threads[k].invoked = <<"h1">> /\ threads[k].todo = {}

\* C12: the constructor succeeds exactly for the source addresses 0x00..0xFD;
\* the client it makes is Disconnected, without transport and with an empty
\* registry; for any other address it raises ValueError and no client comes
\* to exist.
C12_Construction ==
    [][\A c \in Clients, i \in Interfaces, sa \in SourceAddresses :
          J1939Client_init(c, i, sa)
          => IF sa \in 0..253
             THEN /\ last'.error = "None"
                  /\ DOMAIN config' = DOMAIN config \cup {c}
                  /\ config'[c] = [source_address |-> sa, interface |-> i]
                  /\ ~is_connected(c)'
                  /\ transport'[c] = NoTransport
                  /\ DOMAIN pgn_handlers'[c] = {}
             ELSE /\ last'.error = "ValueError"
                  /\ UNCHANGED <<config, connected, transport, pgn_handlers,
                                 transports, buses, threads>>]_vars

\* A exists with address 0xFD and the construction of B has just been
\* refused: there is no B.
C12_Witness ==
    /\ last = Outcome("__init__", "ValueError")
    /\ DOMAIN config = {"A"} /\ DOMAIN connected = {"A"}
    /\ config["A"].source_address = 253
    /\ ~is_connected("A") /\ DOMAIN pgn_handlers["A"] = {}

\* The clients a frame sent by c is delivered to.
Peers(c) ==
    {p \in Clients \ {c} :
        is_connected(p) /\ config[p].interface = config[c].interface}

\* C13: request_pgn(pgn, destination) on a Connected client returns normally
\* and hands over one frame: each peer on the bus gets one delivery of it and
\* nothing else starts or changes; the identifier parses to PGN 0xEA00,
\* priority 6, the client's source address and the given destination; the
\* payload is the 3 bytes of pgn, low byte first, as encode_pgn_data gives
\* for a Request; and the call returns with nobody there to reply.
C13_RequestFrame ==
    /\ [][\A c \in Clients, pgn \in RequestedPGNs, d \in RequestDests :
             (is_connected(c) /\ request_pgn(c, pgn, d))
             => LET new == DOMAIN threads' \ DOMAIN threads
                IN  /\ last' = Outcome("request_pgn", "None")
                    /\ Cardinality(new) = Cardinality(Peers(c))
                    /\ {threads'[k].target : k \in new} = Peers(c)
                    /\ \A k \in DOMAIN threads : threads'[k] = threads[k]
                    /\ UNCHANGED <<connected, transport, pgn_handlers,
                                   transports, buses>>
                    /\ \A k \in new :
                          LET f == threads'[k].frame
                              id == parse_j1939_id(f.id)
                          IN  /\ id.pgn = 59904 /\ id.priority = 6
                              /\ id.source_address = config[c].source_address
                              /\ id.destination_address = d
                              /\ Len(f.data) = 3
                              /\ f.data = <<pgn % 256, (pgn \div 256) % 256,
                                            (pgn \div 65536) % 256>>
                              /\ f.data = encode_pgn_data(
                                              59904, ("requestedPGN" :> pgn))]_vars
    /\ [](\A c \in Clients, pgn \in RequestedPGNs, d \in RequestDests :
             (is_connected(c) /\ Peers(c) = {})
             => ENABLED request_pgn(c, pgn, d))

\* A's request for 0xF004 addressed to 0xFA is on its way to B with the
\* payload [0x04, 0xF0, 0x00].
C13_Witness ==
    /\ last = Outcome("request_pgn", "None")
    /\ \E k \in DOMAIN threads :
          /\ threads[k].target = "B"
          /\ threads[k].frame.data = <<4, 240, 0>>
          /\ SenderOf(k) = 249
          /\ parse_j1939_id(threads[k].frame.id).destination_address = 250

\* The PDU format byte of a PGN, and the values that are PGNs: 16 bits, a
\* PDU1 one having its PS byte cleared.
PF(pgn) == Shr(pgn, 8) % 256
IsPGN(pgn) == pgn \in 0..65535 /\ (PF(pgn) < 240 => pgn % 256 = 0)

\* The call of build_j1939_id whose identifier the last parse_j1939_id took.
Built == last.args.built_from

\* C14: for every PGN with PF < 240, every destination and source in 0..255
\* and every priority in 0..7, parsing the identifier that build_j1939_id
\* made of them gives back that destination, PGN, source and priority.
C14_AddressedRoundTrip ==
    (/\ last.op = "parse_j1939_id"
     /\ IsPGN(Built.pgn)
     /\ PF(Built.pgn) < 240)
    => /\ last.error = "None"
       /\ last.result.destination_address = Built.destination_address
       /\ last.result.pgn = Built.pgn
       /\ last.result.source_address = Built.source_address
       /\ last.result.priority = Built.priority

\* An addressed PGN sent to a destination that is neither 0 nor broadcast,
\* with a priority other than the default, has been built and parsed.
C14_Witness ==
    /\ last.op = "parse_j1939_id"
    /\ Built.pgn = ENGINE_CONTROL_CMD
    /\ Built.destination_address = DIAG_TOOL_2
    /\ Built.source_address = DIAG_TOOL_1
    /\ Built.priority = 3
    /\ last.result.destination_address = DIAG_TOOL_2

\* C15: for every PGN with PF >= 240, parsing the identifier built from it
\* gives destination 0xFF whatever destination was supplied, is_pdu1 false,
\* and the PGN, source and priority supplied; and the identifier built is
\* made of the priority, the PGN and the source alone.
C15_BroadcastRoundTrip ==
    /\ (/\ last.op = "parse_j1939_id"
        /\ IsPGN(Built.pgn)
        /\ PF(Built.pgn) >= 240)
       => /\ last.error = "None"
          /\ last.result.destination_address = 255
          /\ last.result.pdu1 = FALSE
          /\ last.result.pgn = Built.pgn
          /\ last.result.source_address = Built.source_address
          /\ last.result.priority = Built.priority
    /\ (/\ Done("build_j1939_id")
        /\ IsPGN(last.args.pgn)
        /\ PF(last.args.pgn) >= 240)
       => last.result = last.args.priority * (2 ^ 26) + last.args.pgn * 256
                        + last.args.source_address

\* A broadcast PGN was built with a destination other than 0xFF and parsed.
C15_Witness ==
    /\ last.op = "parse_j1939_id"
    /\ Built.pgn = ET1
    /\ Built.destination_address = DIAG_TOOL_2
    /\ last.result.destination_address = 255

\* The encode_frame call whose frame the last decode_frame took.
Encoded == last.args.encoded_from

\* Whether every signal in the map is in its raw range: engineSpeed a
\* multiple of 0.125 RPM with a 16-bit raw value, torque and coolantTemp with
\* a raw byte after their offset, targetRpm 16 bits, enable a boolean,
\* faultFlags a byte no greater than top.
InRawRange(data, top) ==
    \A k \in DOMAIN data :
        /\ k = "engineSpeed" => data[k] % 2 = 0 /\ data[k] \div 2 \in 0..65535
        /\ k = "torque" => data[k] + 125 \in 0..255
        /\ k = "coolantTemp" => data[k] + 40 \in 0..255
        /\ k = "targetRpm" => data[k] \in 0..65535
        /\ k = "enable" => data[k] \in {0, 1}
        /\ k = "faultFlags" => data[k] \in 0..top

\* The frame round trip for signals whose faultFlags is at most top.
RoundTrip(top) ==
    /\ (last.op = "encode_frame" /\ InRawRange(last.args.data, top))
       => last.error = "None"
    /\ (last.op = "decode_frame" /\ InRawRange(Encoded.data, top))
       => /\ last.result.pgn = Encoded.pgn
          /\ last.result.source_address = Encoded.source_address
          /\ \A k \in DOMAIN Encoded.data :
                 /\ k \in DOMAIN last.result.spns
                 /\ last.result.spns[k] = Encoded.data[k]

\* C16 as stated: for EEC1, ET1 and Engine Control Command, decoding the
\* frame encode_frame made gives the PGN, the source and every supplied
\* signal back, each signal being anywhere in its one- or two-byte raw range.
C16_RoundTripRawRange == RoundTrip(255)

\* C16: the same for faultFlags in 0..0xFE, 0xFF being the byte that decodes
\* to no faultFlags at all.
C16_RoundTrip == RoundTrip(254)

\* An Engine Control Command with all three signals, and an EEC1 with a
\* fractional speed and a negative torque, were encoded and decoded.
C16_Witness ==
    /\ last.op = "decode_frame"
    /\ \/ /\ Encoded.pgn = ENGINE_CONTROL_CMD
          /\ Encoded.data = ("targetRpm" :> 1500 @@ "enable" :> 1 @@ "faultFlags" :> 254)
          /\ last.result.spns["faultFlags"] = 254
       \/ /\ Encoded.pgn = EEC1
          /\ Encoded.data = ("engineSpeed" :> 131070 @@ "torque" :> -125)
          /\ last.result.spns["engineSpeed"] = 131070

\* The PGNs encode_pgn_data and decode_spns have a branch for.
WithEncoder == {REQUEST, ENGINE_CONTROL_CMD, EEC1, ET1}
WithDecoder == {EEC1, ET1, ETC1, PROP_TRANS_STATUS, REQUEST, ENGINE_CONTROL_CMD, DM1}

\* The offsets (counted from 0) the encoder of a PGN puts a value other than
\* the 0xFF fill into.
Overwritten(pgn) ==
    IF pgn = EEC1 THEN {0, 2, 3, 4}
    ELSE IF pgn = ET1 THEN {0}
    ELSE IF pgn = ENGINE_CONTROL_CMD THEN {0, 1, 2, 3}
    ELSE IF pgn = REQUEST THEN {0, 1, 2}
    ELSE {}

\* Whether the values the encoder of the PGN stores unmasked are bytes.
FitsByte(pgn, data) ==
    /\ pgn = EEC1 => Get(data, "torque", 0) + 125 \in 0..255
    /\ pgn = ET1 => Get(data, "coolantTemp", 0) + 40 \in 0..255
    /\ pgn = ENGINE_CONTROL_CMD => Get(data, "faultFlags", 0) \in 0..255

\* The buffer a finished encode_pgn_data returned: full length, every item
\* a byte, 0xFF wherever the PGN's encoder writes nothing.
FullBuffer ==
    /\ last.error = "None"
    /\ Len(last.result) = (IF last.args.pgn = REQUEST THEN 3 ELSE 8)
    /\ \A i \in 1..Len(last.result) :
           /\ last.result[i] \in 0..255
           /\ (i - 1) \notin Overwritten(last.args.pgn) => last.result[i] = 255
    /\ last.args.pgn \notin WithEncoder
       => last.result = <<255, 255, 255, 255, 255, 255, 255, 255>>

\* A PGN without a decoder decodes to the empty map.
UnknownDecodesEmpty ==
    (Done("decode_spns") /\ last.args.pgn \notin WithDecoder)
    => last.result = EmptyDict

SignalBytes(pgn) ==
    IF pgn = EEC1 THEN "engineSpeed" :> {3, 4} @@ "torque" :> {2}
    ELSE IF pgn = ET1 THEN "coolantTemp" :> {0}
    ELSE IF pgn = ENGINE_CONTROL_CMD
    THEN "targetRpm" :> {0, 1} @@ "enable" :> {2} @@ "faultFlags" :> {3}
    ELSE IF pgn = REQUEST THEN "requestedPGN" :> {0, 1, 2}
    ELSE EmptyDict

\* C18: for every PGN with an encoder and every signal of that PGN that the
\* caller does not supply, the bytes of that signal in the encoded payload
\* are 0xFF.
C18_UnsuppliedKeepsFF ==
    (Done("encode_pgn_data") /\ last.args.pgn \in WithEncoder)
    => \A k \in DOMAIN SignalBytes(last.args.pgn) \ DOMAIN last.args.data :
           \A i \in SignalBytes(last.args.pgn)[k] : last.result[i + 1] = 255

\* The signals a PGN's decoder knows and the offsets (counted from 0) of the
\* bytes each one is read from.
DecodedBytes(pgn) ==
    IF pgn = EEC1 THEN "engineSpeed" :> {3, 4} @@ "torque" :> {2}
    ELSE IF pgn = ET1 THEN "coolantTemp" :> {0}
    ELSE IF pgn \in {ETC1, PROP_TRANS_STATUS}
    THEN "outputShaftSpeed" :> {0, 1} @@ "gear" :> {4}
    ELSE IF pgn = REQUEST THEN "requestedPGN" :> {0, 1, 2}
    ELSE IF pgn = ENGINE_CONTROL_CMD
    THEN "targetRpm" :> {0, 1} @@ "enable" :> {2} @@ "faultFlags" :> {3}
         @@ "overheat" :> {3}
    ELSE IF pgn = DM1 THEN "lampStatus" :> {0} @@ "spn" :> {2, 3, 4} @@ "fmi" :> {4}
    ELSE EmptyDict

\* The shortest payload that holds all the bytes of a signal, and the
\* shortest one the decoder accepts for it: targetRpm is decoded together
\* with enable, and the three DM1 signals together.
BytesNeeded(pgn, k) ==
    1 + CHOOSE m \in DecodedBytes(pgn)[k] : \A i \in DecodedBytes(pgn)[k] : i <= m
LengthChecked(pgn, k) ==
    IF pgn = ENGINE_CONTROL_CMD /\ k = "targetRpm" THEN 3
    ELSE IF pgn = DM1 THEN 5
    ELSE BytesNeeded(pgn, k)

\* decode_spns returned a map, and signal k of the PGN is in it exactly when
\* the payload has the length the signal wants (and, for faultFlags and the
\* overheat bit taken from it, byte 3 is not 0xFF).
PresentFrom(exact) ==
    (last.op = "decode_spns" /\ last.pc = "done")
    => /\ last.error = "None"
       /\ DOMAIN last.result \subseteq DOMAIN DecodedBytes(last.args.pgn)
       /\ \A k \in DOMAIN DecodedBytes(last.args.pgn) :
              k \in DOMAIN last.result
              <=> /\ Len(last.args.data) >=
                        (IF exact THEN BytesNeeded(last.args.pgn, k)
                                  ELSE LengthChecked(last.args.pgn, k))
                  /\ k \in {"faultFlags", "overheat"} => last.args.data[4] # 255

\* C19 as stated: decode_spns returns a map for every PGN and every payload
\* of 0 to 8 bytes, and a signal is in the map exactly when all the bytes it
\* requires are in the payload (and, for faultFlags, byte 3 is not 0xFF).
C19_PresentExactly == PresentFrom(TRUE)

\* C19: decode_spns returns a map for every PGN and every payload of 0 to 8
\* bytes; a signal is in it exactly when the payload reaches the length its
\* decoder checks, which is the end of the signal's bytes except for
\* targetRpm (3 bytes) and the DM1 signals (5 bytes); so a signal whose bytes
\* are absent is never in the map.
C19_DecodeTotal ==
    /\ PresentFrom(FALSE)
    /\ \A pgn \in DecodePGNs : \A k \in DOMAIN DecodedBytes(pgn) :
           LengthChecked(pgn, k) >= BytesNeeded(pgn, k)

\* A 4-byte EEC1 payload was decoded: torque is there, engineSpeed is not.
C19_Witness ==
    /\ Done("decode_spns")
    /\ last.args.pgn = EEC1
    /\ last.args.data = <<0, 2, 125, 16>>
    /\ last.result = ("torque" :> 0)

\* Payloads p and q have the same bytes at the offsets (counted from 0) in S.
SameBytes(p, q, S) == \A i \in S : p[i + 1] = q[i + 1]

\* C20: for every 8-byte payload, decoding EEC1 yields torque = byte 2 - 125
\* and engineSpeed = (byte 3 + 256 * byte 4) eighths of an RPM (bytes 125 and
\* 0x10, 0x00 give torque 0 and 2.0 RPM), decoding ET1 yields coolantTemp =
\* byte 0 - 40 (byte 140 gives 100), and payloads that agree on these bytes
\* decode to the same signals.  Speeds are counted in sixteenths of an RPM.
C20_DecodeValues ==
    (Done("decode_spns") /\ Len(last.args.data) = 8)
    => LET b == last.args.data
       IN  /\ last.args.pgn = EEC1
              => /\ last.result["torque"] = b[3] - 125
                 /\ last.result["engineSpeed"] = (b[4] + 256 * b[5]) * 2
                 /\ (b[3] = 125 /\ b[4] = 16 /\ b[5] = 0)
                    => last.result = ("engineSpeed" :> 32 @@ "torque" :> 0)
                 /\ \A q \in FullPayloads :
                        SameBytes(b, q, {2, 3, 4}) => decode_spns(EEC1, q) = last.result
           /\ last.args.pgn = ET1
              => /\ last.result["coolantTemp"] = b[1] - 40
                 /\ b[1] = 140 => last.result = ("coolantTemp" :> 100)
                 /\ \A q \in FullPayloads :
                        SameBytes(b, q, {0}) => decode_spns(ET1, q) = last.result

\* The payload FF 4D 7D 10 00 09 09 09 was decoded as EEC1, to 2.0 RPM and
\* torque 0.
C20_Witness ==
    /\ Done("decode_spns")
    /\ last.args.pgn = EEC1
    /\ last.args.data = <<255, 77, 125, 16, 0, 9, 9, 9>>
    /\ last.result["engineSpeed"] = 32
    /\ last.result["torque"] = 0

\* ------------------------------------------- calls running concurrently

\* J1939Client holds one lock, self._lock, and takes it around the registry
\* only: connect(), disconnect(), send_pgn() and request_pgn() read and write
\* self._connected and self._transport with no lock held, so that calls made
\* by different application threads interleave statement by statement.  Here
\* `last` holds, per application thread, the call it is in: the statement it
\* is at ("idle" between calls), the frame it has built, and the way its
\* latest call ended.

\* The application threads and the client they share.
Callers == {"t1", "t2"}
Shared == {"B"}

NoFrame == [data |-> <<>>, id |-> 0]

\* An application thread at a statement of a call, and after the call ended.
At(pc, op, frame) == [frame |-> frame, pc |-> pc, op |-> op, error |-> "None"]
Ended(op, error) == [frame |-> NoFrame, pc |-> "idle", op |-> op, error |-> error]

\* The endpoints something still refers to: a client's handle or a bus.
Referenced(ts, bs, tr) ==
    Restrict(ts, {t \in DOMAIN ts :
                     \/ \E c \in Clients : tr[c] = t
                     \/ \E i \in DOMAIN bs : t \in Range(bs[i])})

\* if self._connected: raise RuntimeError("Already connected")
connect_check(u, c) ==
    /\ last[u].pc = "idle"
    /\ last' = [last EXCEPT ![u] = IF connected[c]
                                   THEN Ended("connect", "Already connected")
                                   ELSE At("create", "connect", NoFrame)]
    /\ UNCHANGED <<config, connected, transport, pgn_handlers, transports, buses,
                   threads, tokens, unsubscribed>>

\* self._transport = self._create_transport().  The new endpoint is named by
\* the thread that creates it; a thread whose earlier endpoint is still
\* referenced waits.
connect_create(u, c) ==
    /\ last[u].pc = "create"
    /\ u \notin DOMAIN Referenced(transports, buses,
                                  [transport EXCEPT ![c] = NoTransport])
    /\ transport' = [transport EXCEPT ![c] = u]
    /\ transports' = Referenced((u :> VT_init(config[c].interface)) @@ transports,
                                buses, transport')
    /\ last' = [last EXCEPT ![u] = At("on_frame", "connect", NoFrame)]
    /\ UNCHANGED <<config, connected, pgn_handlers, buses, threads, tokens,
                   unsubscribed>>

\* self._transport.on_frame(self._handle_frame)
connect_on_frame(u, c) ==
    /\ last[u].pc = "on_frame"
    /\ IF transport[c] = NoTransport
       THEN /\ last' = [last EXCEPT ![u] = Ended("connect", "AttributeError")]
            /\ UNCHANGED transports
       ELSE /\ transports' = [transports EXCEPT ![transport[c]] = VT_on_frame(@, c)]
            /\ last' = [last EXCEPT ![u] = At("open", "connect", NoFrame)]
    /\ UNCHANGED <<config, connected, transport, pgn_handlers, buses, threads,
                   tokens, unsubscribed>>

\* self._transport.connect()
connect_open(u, c) ==
    /\ last[u].pc = "open"
    /\ IF transport[c] = NoTransport
       THEN /\ last' = [last EXCEPT ![u] = Ended("connect", "AttributeError")]
            /\ UNCHANGED <<transports, buses>>
       ELSE LET t == transport[c]
            IN  IF VT_connect_raises(transports[t])
                THEN /\ last' = [last EXCEPT ![u] =
                                    Ended("connect", "Already connected")]
                     /\ UNCHANGED <<transports, buses>>
                ELSE /\ buses' = VT_connect_buses(buses, transports[t], t)
                     /\ transports' = [transports EXCEPT ![t].connected = TRUE]
                     /\ last' = [last EXCEPT ![u] = At("flag", "connect", NoFrame)]
    /\ UNCHANGED <<config, connected, transport, pgn_handlers, threads, tokens,
                   unsubscribed>>

\* self._connected = True, and connect() returns.
connect_flag(u, c) ==
    /\ last[u].pc = "flag"
    /\ connected' = [connected EXCEPT ![c] = TRUE]
    /\ last' = [last EXCEPT ![u] = Ended("connect", "None")]
    /\ UNCHANGED <<config, transport, pgn_handlers, transports, buses, threads,
                   tokens, unsubscribed>>

\* if not self._connected or not self._transport: return
disconnect_check(u, c) ==
    /\ last[u].pc = "idle"
    /\ last' = [last EXCEPT ![u] = IF NotReady(c)
                                   THEN Ended("disconnect", "None")
                                   ELSE At("close", "disconnect", NoFrame)]
    /\ UNCHANGED <<config, connected, transport, pgn_handlers, transports, buses,
                   threads, tokens, unsubscribed>>

\* self._transport.disconnect()
disconnect_close(u, c) ==
    /\ last[u].pc = "close"
    /\ IF transport[c] = NoTransport
       THEN /\ last' = [last EXCEPT ![u] = Ended("disconnect", "AttributeError")]
            /\ UNCHANGED <<transports, buses>>
       ELSE LET t == transport[c]
            IN  /\ buses' = VT_disconnect_buses(buses, transports[t], t)
                /\ transports' = [transports EXCEPT ![t] = VT_disconnect_obj(@)]
                /\ last' = [last EXCEPT ![u] = At("drop", "disconnect", NoFrame)]
    /\ UNCHANGED <<config, connected, transport, pgn_handlers, threads, tokens,
                   unsubscribed>>

\* self._transport = None
disconnect_drop(u, c) ==
    /\ last[u].pc = "drop"
    /\ transport' = [transport EXCEPT ![c] = NoTransport]
    /\ transports' = Referenced(transports, buses, transport')
    /\ last' = [last EXCEPT ![u] = At("flag_off", "disconnect", NoFrame)]
    /\ UNCHANGED <<config, connected, pgn_handlers, buses, threads, tokens,
                   unsubscribed>>

\* self._connected = False
disconnect_flag(u, c) ==
    /\ last[u].pc = "flag_off"
    /\ connected' = [connected EXCEPT ![c] = FALSE]
    /\ last' = [last EXCEPT ![u] = At("clear", "disconnect", NoFrame)]
    /\ UNCHANGED <<config, transport, pgn_handlers, transports, buses, threads,
                   tokens, unsubscribed>>

\* with self._lock: self._pgn_handlers.clear(), and disconnect() returns.
disconnect_clear(u, c) ==
    /\ last[u].pc = "clear"
    /\ ~Locked(c)
    /\ pgn_handlers' = [pgn_handlers EXCEPT ![c] = [k \in {} |-> {}]]
    /\ last' = [last EXCEPT ![u] = Ended("disconnect", "None")]
    /\ UNCHANGED <<config, connected, transport, transports, buses, threads,
                   tokens, unsubscribed>>

\* send_pgn up to the frame it builds: the connected-check and encode_frame.
send_pgn_check(u, c, pgn, data, destination) ==
    /\ last[u].pc = "idle"
    /\ last' = [last EXCEPT ![u] =
           IF NotReady(c) THEN Ended("send_pgn", "Not connected")
           ELSE IF encode_raises(pgn, data) THEN Ended("send_pgn", "ValueError")
           ELSE At("send", "send_pgn",
                   encode_frame(pgn, data, config[c].source_address, 6,
                                destination))]
    /\ UNCHANGED <<config, connected, transport, pgn_handlers, transports, buses,
                   threads, tokens, unsubscribed>>

\* request_pgn up to the frame it builds.
request_pgn_check(u, c, pgn, destination) ==
    /\ last[u].pc = "idle"
    /\ last' = [last EXCEPT ![u] =
           IF NotReady(c) THEN Ended("request_pgn", "Not connected")
           ELSE At("send", "request_pgn",
                   [data |-> <<pgn % 256, Shr(pgn, 8) % 256, Shr(pgn, 16) % 256>>,
                    id |-> build_j1939_id(REQUEST, config[c].source_address, 6,
                                          destination)])]
    /\ UNCHANGED <<config, connected, transport, pgn_handlers, transports, buses,
                   threads, tokens, unsubscribed>>

\* self._transport.send(frame), the last statement of both: the handle is
\* read again, and VirtualTransport.send checks the endpoint's own flag.
transport_send(u, c) ==
    /\ last[u].pc = "send"
    /\ IF transport[c] = NoTransport
       THEN /\ last' = [last EXCEPT ![u] = Ended(last[u].op, "AttributeError")]
            /\ UNCHANGED threads
       ELSE IF ~transports[transport[c]].connected
       THEN /\ last' = [last EXCEPT ![u] = Ended(last[u].op, "Not connected")]
            /\ UNCHANGED threads
       ELSE LET recips == Recipients(transports, buses, transport[c])
            IN  /\ Len(recips) <= Cardinality(ThreadIds \ DOMAIN threads)
                /\ threads' = StartThreads(threads, recips, last[u].frame)
                /\ last' = [last EXCEPT ![u] = Ended(last[u].op, "None")]
    /\ UNCHANGED <<config, connected, transport, pgn_handlers, transports, buses,
                   tokens, unsubscribed>>

\* A is Connected and idle; the application threads share B.  Nothing is
\* subscribed, so that each delivery ends with its snapshot.
InitConcurrent ==
    /\ config \in Configs
    /\ connected = [c \in Clients |-> c = "A"]
    /\ transport = [c \in Clients |-> IF c = "A" THEN "A" ELSE NoTransport]
    /\ pgn_handlers = [c \in Clients |-> [k \in {} |-> {}]]
    /\ transports = ("A" :> [VT_on_frame(VT_init(config["A"].interface), "A")
                                EXCEPT !.connected = TRUE])
    /\ buses = (config["A"].interface :> <<"A">>)
    /\ threads = [k \in {} |-> NewThread("A", NoFrame)]
    /\ tokens = {}
    /\ unsubscribed = {}
    /\ last = [u \in Callers |-> Ended("__init__", "None")]

NextConcurrent ==
    \/ \E u \in Callers, c \in Shared : connect_check(u, c)
    \/ \E u \in Callers, c \in Shared : connect_create(u, c)
    \/ \E u \in Callers, c \in Shared : connect_on_frame(u, c)
    \/ \E u \in Callers, c \in Shared : connect_open(u, c)
    \/ \E u \in Callers, c \in Shared : connect_flag(u, c)
    \/ \E u \in Callers, c \in Shared : disconnect_check(u, c)
    \/ \E u \in Callers, c \in Shared : disconnect_close(u, c)
    \/ \E u \in Callers, c \in Shared : disconnect_drop(u, c)
    \/ \E u \in Callers, c \in Shared : disconnect_flag(u, c)
    \/ \E u \in Callers, c \in Shared : disconnect_clear(u, c)
    \/ \E u \in Callers, c \in Shared, pgn \in SendPGNs, d \in SendDests :
           \E data \in SendData(pgn) : send_pgn_check(u, c, pgn, data, d)
    \/ \E u \in Callers, c \in Shared, pgn \in RequestPGNs, d \in SendDests :
           request_pgn_check(u, c, pgn, d)
    \/ \E u \in Callers, c \in Shared : transport_send(u, c)
    \/ \E k \in ThreadIds : Snapshot(k)

ConcurrentSpec == InitConcurrent /\ [][NextConcurrent]_vars

\* ------------------------------------------------------ addressed frames

\* Both clients on one interface, A with an address of its own or with B's;
\* frames addressed to a third node (0), to B (0xFA) and to everybody.
DispatchConfigs ==
    {[c \in Clients |->
        [source_address |-> IF c = "A" THEN a ELSE DIAG_TOOL_2,
         interface |-> "vcan0"]] :
     a \in {DIAG_TOOL_1, DIAG_TOOL_2}}
DispatchDests == {0, DIAG_TOOL_2, GLOBAL}
DispatchSubscriptions ==
    {<<ENGINE_CONTROL_CMD, "h1">>, <<REQUEST, "h2">>, <<EEC1, "h2">>}

InitDispatch ==
    /\ config \in DispatchConfigs
    /\ connected = [c \in Clients |-> FALSE]
    /\ transport = [c \in Clients |-> NoTransport]
    /\ pgn_handlers = [c \in Clients |-> [k \in {} |-> {}]]
    /\ transports = [t \in {} |-> VT_init("vcan0")]
    /\ buses = [i \in {} |-> <<>>]
    /\ threads = [k \in {} |-> NewThread("A", [data |-> <<>>, id |-> 0])]
    /\ tokens = {}
    /\ unsubscribed = {}
    /\ last = Outcome("__init__", "None")

\* A sends and requests, B subscribes and receives; nothing is taken out of
\* a registry.
NextDispatch ==
    \/ \E c \in Clients : connect(c)
    \/ \E c \in Subscribers, s \in DispatchSubscriptions : on_pgn(c, s[1], s[2])
    \/ \E pgn \in SendPGNs, d \in DispatchDests :
           \E data \in SendData(pgn) : send_pgn("A", pgn, data, d)
    \/ \E pgn \in RequestPGNs, d \in DispatchDests : request_pgn("A", pgn, d)
    \/ \E k \in ThreadIds : Snapshot(k)
    \/ \E k \in ThreadIds, h \in Handlers : Invoke(k, h)
    \/ \E k \in ThreadIds, raises \in BOOLEAN : HandlerEnd(k, raises)

DispatchSpec == InitDispatch /\ [][NextDispatch]_vars

\* ------------------------------------------------------------- reconnecting

\* The closures the application holds from before the disconnect.
StaleTokens == {<<"B", EEC1, "h1">>}
ReconnectSubscriptions == {<<EEC1, "h1">>, <<EEC1, "h2">>}

\* B has connected, subscribed h1 to EEC1 and disconnected; the application
\* has kept the closure that on_pgn returned.
InitReconnect ==
    /\ config \in Configs
    /\ connected = [c \in Clients |-> FALSE]
    /\ transport = [c \in Clients |-> NoTransport]
    /\ pgn_handlers = [c \in Clients |-> [k \in {} |-> {}]]
    /\ transports = [t \in {} |-> VT_init("vcan0")]
    /\ buses = [i \in {} |-> <<>>]
    /\ threads = [k \in {} |-> NewThread("A", [data |-> <<>>, id |-> 0])]
    /\ tokens = StaleTokens
    /\ unsubscribed = {}
    /\ last = Outcome("disconnect", "None")

\* The clients connect (B: again), B subscribes anew, the application calls
\* the closure it kept, and A's EEC1 frames are delivered.  No client
\* disconnects, so that what is in a registry was put there after B's
\* disconnect and leaves it through a closure only.
NextReconnect ==
    \/ \E c \in Clients : connect(c)
    \/ \E c \in Subscribers, s \in ReconnectSubscriptions : on_pgn(c, s[1], s[2])
    \/ \E tok \in StaleTokens : unsubscribe(tok[1], tok[2], tok[3])
    \/ \E data \in SendData(EEC1) : send_pgn("A", EEC1, data, GLOBAL)
    \/ \E k \in ThreadIds : Snapshot(k)
    \/ \E k \in ThreadIds, h \in Handlers : Invoke(k, h)
    \/ \E k \in ThreadIds, raises \in BOOLEAN : HandlerEnd(k, raises)

ReconnectSpec == InitReconnect /\ [][NextReconnect]_vars

\* ------------------------------------------------- the transport on its own

\* Three VirtualTransport objects used without a client: two on vcan0, the
\* third on either interface.  The callback of an endpoint is named like the
\* endpoint; it takes the frame and returns.
Endpoints == {"e1", "e2", "e3"}
Frames == {[data |-> <<1, 2>>, id |-> 1], [data |-> <<>>, id |-> 2]}

VirtualTransport_on_frame(t, handler) ==
    /\ transports' = [transports EXCEPT ![t] = VT_on_frame(@, handler)]
    /\ last' = Outcome("on_frame", "None")
    /\ UNCHANGED <<config, connected, transport, pgn_handlers, buses, threads,
                   tokens, unsubscribed>>

VirtualTransport_connect(t) ==
    /\ IF VT_connect_raises(transports[t])
       THEN /\ last' = Outcome("connect", "Already connected")
            /\ UNCHANGED <<transports, buses>>
       ELSE /\ buses' = VT_connect_buses(buses, transports[t], t)
            /\ transports' = [transports EXCEPT ![t].connected = TRUE]
            /\ last' = Outcome("connect", "None")
    /\ UNCHANGED <<config, connected, transport, pgn_handlers, threads, tokens,
                   unsubscribed>>

VirtualTransport_disconnect(t) ==
    /\ buses' = VT_disconnect_buses(buses, transports[t], t)
    /\ transports' = [transports EXCEPT ![t] = VT_disconnect_obj(@)]
    /\ last' = Outcome("disconnect", "None")
    /\ UNCHANGED <<config, connected, transport, pgn_handlers, threads, tokens,
                   unsubscribed>>

VirtualTransport_send(t, frame) ==
    /\ IF ~transports[t].connected
       THEN /\ last' = Outcome("send", "Not connected")
            /\ UNCHANGED threads
       ELSE LET recips == Recipients(transports, buses, t)
            IN  /\ Len(recips) <= Cardinality(ThreadIds \ DOMAIN threads)
                /\ threads' = StartThreads(threads, recips, frame)
                /\ last' = Outcome("send", "None")
    /\ UNCHANGED <<config, connected, transport, pgn_handlers, transports, buses,
                   tokens, unsubscribed>>

\* The thread runs the callback, which returns.
Callback(k) ==
    /\ k \in DOMAIN threads
    /\ threads' = Restrict(threads, DOMAIN threads \ {k})
    /\ UNCHANGED <<config, connected, transport, pgn_handlers, transports, buses,
                   tokens, unsubscribed, last>>

InitTransport ==
    /\ config \in Configs
    /\ connected = [c \in Clients |-> FALSE]
    /\ transport = [c \in Clients |-> NoTransport]
    /\ pgn_handlers = [c \in Clients |-> [k \in {} |-> {}]]
    /\ \E i \in Interfaces :
          transports = [t \in Endpoints |->
                           VT_init(IF t = "e3" THEN i ELSE "vcan0")]
    /\ buses = [i \in {} |-> <<>>]
    /\ threads = [k \in {} |-> NewThread("e1", [data |-> <<>>, id |-> 0])]
    /\ tokens = {}
    /\ unsubscribed = {}
    /\ last = Outcome("__init__", "None")

NextTransport ==
    \/ \E t \in Endpoints : VirtualTransport_on_frame(t, t)
    \/ \E t \in Endpoints : VirtualTransport_connect(t)
    \/ \E t \in Endpoints : VirtualTransport_disconnect(t)
    \/ \E t \in Endpoints, frame \in Frames : VirtualTransport_send(t, frame)
    \/ \E k \in ThreadIds : Callback(k)

TransportSpec == InitTransport /\ [][NextTransport]_vars

\* ---------------------------------------------------- concurrent lifecycle

\* The endpoints on a bus that deliver to client c.
Registered(c) ==
    {t \in DOMAIN transports :
        /\ transports[t].frame_handler = c
        /\ \E i \in DOMAIN buses : t \in Range(buses[i])}

\* The application threads inside connect() with nothing left that can fail:
\* the endpoint is open and only self._connected = True remains.
Succeeding == {u \in Callers : last[u].pc = "flag"}

\* C21: connect() and disconnect() exclude each other, so that under every
\* interleaving of concurrent calls two connect() calls never both succeed
\* (are both about to return normally), a client has at
\* most one endpoint registered on the bus, and is_connected() is never true
\* while the transport handle is absent.
C21_MutuallyExclusive ==
    /\ Cardinality(Succeeding) <= 1
    /\ \A c \in Clients : Cardinality(Registered(c)) <= 1
    /\ \A c \in Clients : is_connected(c) => transport[c] # NoTransport

\* ------------------------------------------------ delivery after disconnect

\* Delivery thread k runs the callback of a client that is Disconnected and
\* whose transport handle has been cleared.
Late(k) ==
    /\ k \in DOMAIN threads
    /\ ~is_connected(threads[k].target)
    /\ transport[threads[k].target] = NoTransport

\* A step of delivery thread k.
Step(k) ==
    \/ Snapshot(k)
    \/ \E h \in Handlers : Invoke(k, h)
    \/ \E raises \in BOOLEAN : HandlerEnd(k, raises)

\* C22: a frame delivered to the inbound callback after disconnect() has
\* cleared the transport handle does not crash the client: the callback can
\* always go on, each of its steps raises nothing and leaves the client
\* Disconnected with its handle, registry and bus as they were, and over an
\* empty registry it returns at once.
C22_LateDelivery ==
    /\ [](\A k \in ThreadIds : Late(k) => ENABLED Step(k))
    /\ [][\A k \in ThreadIds :
             (Late(k) /\ Step(k))
             => /\ last' = last
                /\ UNCHANGED <<connected, transport, pgn_handlers,
                               transports, buses>>
                /\ (threads[k].pc = "start"
                    /\ pgn_handlers[threads[k].target] = EmptyDict)
                   => Ends(k)]_vars

\* B is Disconnected with no handle, and a delivery that was started while it
\* was connected is running a handler that is in the registry: one
\* subscribed after the disconnect, so the snapshot was taken after it too.
C22_Witness ==
    \E k \in DOMAIN threads :
        /\ Late(k)
        /\ threads[k].pc = "handler"
        /\ threads[k].running \in Reg(threads[k].target, PgnOf(k))

\* ------------------------------------------------- calls made by a handler

\* A handler of client c is running: what it calls, it calls now.
Running(c) ==
    \E k \in DOMAIN threads : threads[k].target = c /\ threads[k].pc = "handler"

\* C23: a handler that subscribes, unsubscribes (itself or another handler)
\* or calls disconnect() during its own invocation cannot deadlock or corrupt
\* the registry: while a handler runs, the registry lock is free and each of
\* those calls can be made and returns; the registry then holds exactly what
\* the call made of it; whatever step moves a dispatch in progress leaves
\* the registry alone, the dispatch keeps its snapshot and ends only when
\* each handler of the snapshot has been invoked.  (disconnect() of
\* a client that is Disconnected returns at once and clears nothing.)
C23_HandlerCalls ==
    /\ [](\A c \in Subscribers :
             Running(c)
             => /\ ~Locked(c)
                /\ \A s \in Subscriptions : ENABLED on_pgn(c, s[1], s[2])
                /\ \A s \in Subscriptions :
                       <<c, s[1], s[2]>> \in tokens
                       => ENABLED unsubscribe(c, s[1], s[2])
                /\ ENABLED disconnect(c))
    /\ [][\A c \in Subscribers :
             (Running(c) /\ threads' = threads)
             => /\ \A s \in Subscriptions :
                    /\ on_pgn(c, s[1], s[2])
                       => /\ last'.error = "None"
                          /\ pgn_handlers'[c]
                                = Subscribed(pgn_handlers[c], s[1], s[2])
                    /\ unsubscribe(c, s[1], s[2])
                       => /\ last'.error = "None"
                          /\ pgn_handlers'[c]
                                = Unsubscribed(pgn_handlers[c], s[1], s[2])
                /\ disconnect(c)
                   => /\ last'.error = "None"
                      /\ pgn_handlers'[c] = IF is_connected(c)
                                            THEN [p \in {} |-> {}]
                                            ELSE pgn_handlers[c]]_vars
    /\ [][\A k \in ThreadIds :
             (InFlight(k) /\ threads' # threads /\ threads[k].target \in Subscribers)
             => /\ pgn_handlers' = pgn_handlers
                /\ k \in DOMAIN threads'
                   => threads'[k].handlers = threads[k].handlers
                /\ Ends(k)
                   => Range(threads[k].invoked) = threads[k].handlers]_vars

\* h1 is running over the snapshot {h1, h2}, with h2 still to come; a
\* disconnect() has just returned and the registry is empty.
C23_Witness ==
    \E k \in DOMAIN threads :
        /\ threads[k].pc = "handler"
        /\ threads[k].running = "h1"
        /\ threads[k].handlers = {"h1", "h2"}
        /\ threads[k].todo = {"h2"}
        /\ last = Outcome("disconnect", "None")
        /\ ~is_connected(threads[k].target)
        /\ DOMAIN pgn_handlers[threads[k].target] = {}

\* ------------------------------------------------- dispatch by parsed PGN

\* The destination the frame of delivery thread k is addressed to (0xFF for
\* a PDU2 frame).
DestOf(k) == parse_j1939_id(threads[k].frame.id).destination_address

\* C24: every inbound frame is dispatched to exactly the handlers registered
\* under the PGN that parse_j1939_id derives from its identifier, whatever
\* its destination and its source: the snapshot is the whole handler set of
\* that PGN, a handler that is invoked is registered under that PGN, and the
\* dispatch ends once each handler of the set has been invoked.
C24_NoFiltering ==
    [][\A k \in ThreadIds :
          /\ Snapshot(k) => Taken(k) = Reg(threads[k].target, PgnOf(k))
          /\ \A h \in Handlers :
                 Invoke(k, h) => h \in Reg(threads[k].target, PgnOf(k))
          /\ (InFlight(k) /\ Ends(k))
             => Range(threads[k].invoked) = threads[k].handlers]_vars

\* B runs h1 for an Engine Control Command frame (PDU1) that is addressed to
\* node 0 and carries B's own address as its source.
C24_Witness ==
    \E k \in DOMAIN threads :
        /\ threads[k].target = "B"
        /\ threads[k].pc = "handler"
        /\ threads[k].running = "h1"
        /\ PgnOf(k) = ENGINE_CONTROL_CMD
        /\ DestOf(k) = 0
        /\ SenderOf(k) = config["B"].source_address

\* ------------------------------------------------------------ stale tokens

\* C25: an unsubscribe token obtained before a disconnect() is dead
\* afterwards: invoking it after the client has reconnected never removes a
\* subscription made after that disconnect, even when the same handler has
\* been subscribed again to the same PGN.
C25_StaleTokenDead ==
    [][\A tok \in StaleTokens :
          (is_connected(tok[1]) /\ unsubscribe(tok[1], tok[2], tok[3]))
          => pgn_handlers' = pgn_handlers]_vars

\* ------------------------------------------------ send against disconnect

\* C26: when send_pgn or request_pgn runs concurrently with disconnect() on
\* the same client, each call either hands its frame to the transport (and
\* returns) or fails with "Not connected"; it never ends in any other way.
C26_SendOrNotConnected ==
    \A u \in Callers :
        (last[u].pc = "idle" /\ last[u].op \in {"send_pgn", "request_pgn"})
        => last[u].error \in {"None", "Not connected"}

\* ------------------------------------------ invocations after disconnect

\* Delivery thread k is started in this step.
Starts(k) == k \notin DOMAIN threads /\ k \in DOMAIN threads'

\* C27 as stated: handlers are invoked only while the client is Connected.
C27_InvokedOnlyConnected ==
    [][\A k \in ThreadIds :
          (k \in DOMAIN threads /\ ~is_connected(threads[k].target))
          => \A h \in Handlers : ~Invoke(k, h)]_vars

\* C27, amended: a delivery is started for Connected clients only, so after
\* disconnect() has returned nothing new is on its way to the client until
\* it connects again; a delivery started before can still take its snapshot
\* and invoke handlers while the client is Disconnected: the handlers of its
\* snapshot, which is what the registry holds when it is taken (nothing if
\* disconnect() has emptied it and nobody has subscribed since).
C27_NoDeliveryStarted ==
    /\ [][\A k \in ThreadIds :
             Starts(k) => /\ is_connected(threads'[k].target)
                          /\ connected' = connected]_vars
    /\ [][\A k \in ThreadIds :
             (k \in DOMAIN threads /\ ~is_connected(threads[k].target))
             => /\ Snapshot(k)
                   => Taken(k) = Reg(threads[k].target, PgnOf(k))
                /\ \A h \in Handlers :
                       Invoke(k, h) => h \in threads[k].handlers]_vars

\* B is Disconnected, its registry empty after the disconnect(), and a
\* delivery that took the snapshot {h1, h2} before is running the second of
\* the two.
C27_Witness ==
    \E k \in DOMAIN threads :
        /\ ~is_connected(threads[k].target)
        /\ last = Outcome("disconnect", "None")
        /\ DOMAIN pgn_handlers[threads[k].target] = {}
        /\ threads[k].pc = "handler"
        /\ threads[k].handlers = {"h1", "h2"}
        /\ Len(threads[k].invoked) = 2

\* -------------------------------------------------- VirtualTransport.send

\* The endpoints a frame sent by t is meant for: every other endpoint that
\* is connected on the interface name of t and has an inbound callback.
Listeners(t) ==
    {u \in Endpoints \ {t} :
        /\ transports[u].connected
        /\ transports[u].interface = transports[t].interface
        /\ transports[u].frame_handler # "None"}

DeliverySubscriptions == Subscriptions \cup {<<REQUEST, "h2">>}

InitDelivery ==
    /\ config \in Configs
    /\ connected = [c \in Clients |-> FALSE]
    /\ transport = [c \in Clients |-> NoTransport]
    /\ pgn_handlers = [c \in Clients |->
                          IF c = "B"
                          THEN Subscribed(Subscribed([k \in {} |-> {}], EEC1, "h1"),
                                          REQUEST, "h2")
                          ELSE [k \in {} |-> {}]]
    /\ transports = [t \in {} |-> VT_init("vcan0")]
    /\ buses = [i \in {} |-> <<>>]
    /\ threads = [k \in {} |-> NewThread("A", [data |-> <<>>, id |-> 0])]
    /\ tokens = {<<"B", EEC1, "h1">>, <<"B", REQUEST, "h2">>}
    /\ unsubscribed = {}
    /\ last = Outcome("on_pgn", "None")

NextDelivery ==
    \/ \E c \in Clients : connect(c)
    \/ \E c \in Subscribers, s \in DeliverySubscriptions : on_pgn(c, s[1], s[2])
    \/ \E c \in Clients, pgn \in SendPGNs, d \in SendDests :
           \E data \in SendData(pgn) : send_pgn(c, pgn, data, d)
    \/ \E c \in Clients, pgn \in RequestPGNs, d \in SendDests : request_pgn(c, pgn, d)
    \/ \E k \in ThreadIds : Snapshot(k)
    \/ \E k \in ThreadIds, h \in Handlers : Invoke(k, h)
    \/ \E k \in ThreadIds, raises \in BOOLEAN : HandlerEnd(k, raises)

\* Each delivery thread that VirtualTransport.send has started is scheduled
\* again and again until _handle_frame returns, and a handler that has been
\* invoked comes to an end (it returns or raises).
FairDeliverySpec ==
    /\ InitDelivery
    /\ [][NextDelivery]_vars
    /\ \A k \in ThreadIds : WF_vars(Step(k))

\* The frames A (address 0xF9) hands to the transport: the PGN it sends or
\* requests with, the payload, and the frame.
Sent ==
    {[pgn |-> pgn, raw |-> encode_pgn_data(pgn, data),
      frame |-> encode_frame(pgn, data, DIAG_TOOL_1, 6, GLOBAL)] :
        pgn \in {EEC1}, data \in SendData(EEC1)}
    \cup {[pgn |-> REQUEST, raw |-> <<pgn % 256, Shr(pgn, 8) % 256, Shr(pgn, 16) % 256>>,
           frame |-> [data |-> <<pgn % 256, Shr(pgn, 8) % 256, Shr(pgn, 16) % 256>>,
                      id |-> build_j1939_id(REQUEST, DIAG_TOOL_1, 6, GLOBAL)]] :
             pgn \in RequestPGNs}

\* Delivery thread k carries frame f to B.
Carries(k, f) ==
    k \in DOMAIN threads /\ threads[k].target = "B" /\ threads[k].frame = f

\* C29: if A sends or requests a PGN while B is Connected on the same
\* interface with a handler subscribed to the frame's parsed PGN, and B
\* neither unsubscribes nor disconnects, then under fair scheduling of the
\* delivery threads that handler is eventually invoked for the frame, with a
\* message whose pgn, source address and payload are those A sent; it is
\* invoked once: never twice by the delivery, and the delivery does not end
\* before it.
C29_EventuallyInvoked ==
    /\ \A k \in ThreadIds, h \in Handlers, s \in Sent :
          (/\ Carries(k, s.frame)
           /\ threads[k].pc = "start"
           /\ is_connected("B")
           /\ h \in Reg("B", s.pgn))
          ~> (/\ Carries(k, s.frame)
              /\ threads[k].pc = "handler"
              /\ threads[k].running = h
              /\ Invocations(k, h) = 1
              /\ LET message == decode_frame(threads[k].frame)
                 IN  /\ message.pgn = s.pgn
                     /\ message.pgn = PgnOf(k)
                     /\ message.source_address = DIAG_TOOL_1
                     /\ message.raw = s.raw)
    /\ [](\A k \in DOMAIN threads, h \in Handlers : Invocations(k, h) <= 1)
    /\ [][\A k \in ThreadIds :
             (InFlight(k) /\ Ends(k))
             => \A h \in threads[k].handlers : Invocations(k, h) = 1]_vars

\* B is running h2 for A's request for 0xF004: the message is a Request from
\* 0xF9 with the payload [0x04, 0xF0, 0x00].
C29_Witness ==
    \E k \in DOMAIN threads :
        /\ threads[k].target = "B"
        /\ threads[k].pc = "handler"
        /\ threads[k].running = "h2"
        /\ is_connected("B")
        /\ decode_frame(threads[k].frame).pgn = REQUEST
        /\ decode_frame(threads[k].frame).source_address = DIAG_TOOL_1
        /\ decode_frame(threads[k].frame).raw = <<4, 240, 0>>

====
